---- MODULE Spec2Model ----
(***************************************************************************)
(* Model of the HiLabs contract clause classifier (ravi-ivar-7/hilabs).    *)
(*                                                                         *)
(* Part 1: texts, normalisation, the template store.                       *)
(* Part 2: the classification cascade of the worker (SpacyClassifier) and  *)
(*         of the two notebooks, with their best-template selectors.       *)
(* Part 3: the two-stage Celery pipeline (stage 1 preprocessing, stage 2   *)
(*         classification) over the contracts database.                    *)
(*                                                                         *)
(* Scores are integers in hundredths: 0.75 is 75, a RapidFuzz ratio of 85  *)
(* is 85, a cosine of -0.2 is -20.  An absent score (Python None) is the   *)
(* empty sequence, a present score s is <<s>>.                             *)
(***************************************************************************)
EXTENDS Integers, Sequences, FiniteSets, TLC

(***************************************************************************)
(* Part 1.  Texts.                                                         *)
(*                                                                         *)
(* A text is a sequence of character classes, each standing for a run of   *)
(* characters of the real string:                                          *)
(*   "a"  lower-case word characters                                       *)
(*   "A"  word characters with an upper-case letter                        *)
(*   " "  one white-space character                                        *)
(*   "."  punctuation of the set . , ; : ( ) -                             *)
(*   "'"  any other non-word character (apostrophe, slash, ...)            *)
(*   "7"  a number standing on its own, as in "(120)"                      *)
(*   "x"  an exception token in lower case ("unless", "subject to", ...)   *)
(*   "X"  an exception token with an upper-case letter ("Unless")          *)
(*   "N"  the placeholder NUM written by normalize_for_matching            *)
(***************************************************************************)

MaxLen == 2

Chars == {"a", "A", " ", ".", "'", "7", "x", "X"}

Texts == UNION {[1..k -> Chars] : k \in 1..MaxLen}

\* str.lower() on one character class
LowerChar(c) == IF c = "A" THEN "a" ELSE IF c = "X" THEN "x" ELSE c

\* The string functions below take the value of their argument, as a Python
\* call does: the argument is bound once (v) and the body works on v.

\* str.lower()
Lower(s) ==
    CHOOSE r \in {[i \in 1..Len(v) |-> LowerChar(v[i])] : v \in {s}} : TRUE

\* re.sub(r'\s+', ' ', s): every run of white space becomes one space
RECURSIVE CollapseWs(_)
CollapseWs(s) ==
    CHOOSE r \in {IF Len(v) <= 1 THEN v
                  ELSE IF v[1] = " " /\ v[2] = " " THEN CollapseWs(Tail(v))
                  ELSE <<v[1]>> \o CollapseWs(Tail(v)) : v \in {s}} : TRUE

\* str.strip(): leading and trailing white space removed
RECURSIVE Strip(_)
Strip(s) ==
    CHOOSE r \in {IF v = << >> THEN v
                  ELSE IF v[1] = " " THEN Strip(Tail(v))
                  ELSE IF v[Len(v)] = " " THEN Strip(SubSeq(v, 1, Len(v) - 1))
                  ELSE v : v \in {s}} : TRUE

\* re.sub(<class>, '', s): the characters of cs removed
RECURSIVE RemoveChars(_, _)
RemoveChars(s, cs) ==
    CHOOSE r \in {IF v = << >> THEN v
                  ELSE IF v[1] \in cs THEN RemoveChars(Tail(v), cs)
                  ELSE <<v[1]>> \o RemoveChars(Tail(v), cs) : v \in {s}} : TRUE

\* re.sub(<class>, <c>, s): every character of cs replaced by c
ReplaceChars(s, cs, c) ==
    CHOOSE r \in {[i \in 1..Len(v) |-> IF v[i] \in cs THEN c ELSE v[i]] :
                  v \in {s}} : TRUE

\* ClauseExtractor._normalize_text: lower, collapse white space, drop every
\* character outside [\w\s.,;:()-], strip.
_normalize_text(text) ==
    Strip(RemoveChars(CollapseWs(Lower(text)), {"'"}))

\* notebook normalize_whitespace
normalize_whitespace(s) == Strip(CollapseWs(s))

\* notebook to_ascii_lower
to_ascii_lower(s) == Lower(normalize_whitespace(s))

\* notebook normalize_for_matching: lower, punctuation to space, numbers to
\* NUM, collapse white space, strip.
normalize_for_matching(s) ==
    Strip(CollapseWs(
        ReplaceChars(ReplaceChars(Lower(normalize_whitespace(s)), {".", "'"}, " "),
                     {"7"}, "N")))

\* EXCEPTION_TOKENS: the exception tokens as they appear in a lowered text
EXCEPTION_TOKENS == {"x"}

\* exception tokens looked up in the text as written, without lowering
ExceptionTokensAsWritten(text, template_has_exception) ==
    IF template_has_exception THEN FALSE
    ELSE \E i \in 1..Len(text) : text[i] \in EXCEPTION_TOKENS

\* SpacyClassifier._contains_exception_tokens
_contains_exception_tokens(text, template_has_exception) ==
    IF template_has_exception THEN FALSE
    ELSE \E i \in 1..Len(text) : Lower(text)[i] \in EXCEPTION_TOKENS

\* notebook contains_exception_tokens (both notebooks)
contains_exception_tokens(text, template_has_exception) ==
    LET text_l == to_ascii_lower(text) IN
    IF template_has_exception THEN FALSE
    ELSE \E i \in 1..Len(text_l) : text_l[i] \in EXCEPTION_TOKENS

(***************************************************************************)
(* The template store.                                                     *)
(***************************************************************************)

\* TARGET_ATTRIBUTES, in the order of SpacyClassifier.attribute_patterns
TARGET_ATTRIBUTES ==
    <<"Medicaid Timely Filing", "Medicare Timely Filing", "No Steerage/SOC",
      "Medicaid Fee Schedule", "Medicare Fee Schedule">>

AttributeNames == {TARGET_ATTRIBUTES[i] : i \in 1..Len(TARGET_ATTRIBUTES)}

\* TN_TEMPLATE_CLAUSES: the character classes of each template text.
\* Timely filing: "Provider shall ... Identifier(s), within ... (120) days
\* ... Provider's ..."; No Steerage: letters only; Medicaid fee schedule:
\* "one hundred percent (100%) of ..."; Medicare fee schedule: letters and
\* kept punctuation only.
TN_TEMPLATE_CLAUSES ==
    [a \in AttributeNames |->
        CASE a = "Medicaid Timely Filing" -> <<"A", ".", "7", "'">>
          [] a = "Medicare Timely Filing" -> <<"A", ".", "7", "'", "a">>
          [] a = "No Steerage/SOC"        -> <<"A", " ", "a">>
          [] a = "Medicaid Fee Schedule"  -> <<"a", ".", "7", "'", "A">>
          [] OTHER                        -> <<"A", ".", "a">>]

\* WA_TEMPLATE_CLAUSES.  Medicaid timely filing starts with "Unless
\* otherwise instructed, ..."; Medicare fee schedule holds "Plan's".
WA_TEMPLATE_CLAUSES ==
    [a \in AttributeNames |->
        CASE a = "Medicaid Timely Filing" -> <<"X", ".", "A">>
          [] a = "Medicare Timely Filing" -> <<"A", ".", "7", "'", "a", "A">>
          [] a = "No Steerage/SOC"        -> <<"A", " ", "a", " ", "A">>
          [] a = "Medicaid Fee Schedule"  -> <<"a", ".", "7", "'", "A">>
          [] OTHER                        -> <<"A", "'", "a", ".">>]

States == {"TN", "WA"}

\* the template dictionary of one state
TemplateClauses(state) ==
    IF state = "TN" THEN TN_TEMPLATE_CLAUSES ELSE WA_TEMPLATE_CLAUSES

\* One TemplateClause as load_templates builds it from a dictionary entry:
\* the name is the state and the attribute, norm_text is
\* normalize_for_matching of the text, the flag says whether the text itself
\* holds an exception token.
TemplateClause(state, attribute) ==
    LET clause_text == TemplateClauses(state)[attribute] IN
    [name |-> <<state, attribute>>,
     attribute |-> attribute,
     raw_text |-> clause_text,
     norm_text |-> normalize_for_matching(clause_text),
     has_exception_tokens |-> contains_exception_tokens(clause_text, FALSE)]

\* notebook load_templates(paths): the templates of every state named by a
\* path, state after state, each in dictionary order
load_templates(paths) ==
    LET n == Len(TARGET_ATTRIBUTES) IN
    [k \in 1..(Len(paths) * n) |->
        TemplateClause(paths[((k - 1) \div n) + 1],
                       TARGET_ATTRIBUTES[((k - 1) % n) + 1])]

\* TemplateLoader.get_template_clauses(contract_state): the templates of one
\* state.  The method is not in the source tree; it is modelled after the
\* TemplateClause of the specification (normalized comparison form and
\* precomputed override flag per jurisdiction and attribute).
get_template_clauses(contract_state) ==
    [k \in 1..Len(TARGET_ATTRIBUTES) |->
        TemplateClause(contract_state, TARGET_ATTRIBUTES[k])]

\* TemplateLoader.get_target_attributes()
get_target_attributes == TARGET_ATTRIBUTES

(***************************************************************************)
(* Part 2.  The classification cascade.                                    *)
(*                                                                         *)
(* The similarity libraries (RapidFuzz, SBERT, the cross-encoder) and the  *)
(* regular expressions over words are not computed from the character      *)
(* classes.  What they return for one clause and one template is a record  *)
(* lib = [placeholder, fuzzy, sbert, ce]; on equal arguments the ratio is  *)
(* 100 and the cosine is 1.  What the word patterns find in a clause text  *)
(* is carried by the clause: attrs (the attributes whose patterns match,   *)
(* in pattern order) and methodology.                                      *)
(***************************************************************************)

\* Python None
None == << >>

\* SpacyClassifier.__init__ thresholds
fuzzy_threshold == 85
sbert_threshold == 75
sbert_ambig_low == 60
sbert_ambig_high == 75

\* StepResult(step_name, passed, score, reason); the reason text is left out
StepResult(step_name, passed, score) ==
    [step_name |-> step_name, passed |-> passed, score |-> score]

\* the tuple (label, score, rule, steps) returned by a cascade
Result(label, score, rule, steps) ==
    [label |-> label, score |-> score, rule |-> rule, steps |-> steps]

\* rapidfuzz fuzz.ratio
fuzz_ratio(a, b, lib) == IF a = b THEN 100 ELSE lib.fuzzy

\* SpacyClassifier._check_placeholder_substitution: the ratio of the two
\* lowered texts after the same substitutions is at least 90
_check_placeholder_substitution(clause_text, template_text, lib) ==
    IF Lower(clause_text) = Lower(template_text) THEN TRUE ELSE lib.placeholder

\* SpacyClassifier._compute_sbert_similarity
_compute_sbert_similarity(text1, text2, lib) ==
    IF text1 = text2 THEN 100 ELSE lib.sbert

\* SpacyClassifier._detect_methodology_reference
_detect_methodology_reference(clause) == clause.methodology

\* only the first attribute whose patterns match
FirstDetectedAttribute(clause) ==
    IF clause.attrs = << >> THEN << >> ELSE <<clause.attrs[1]>>

\* SpacyClassifier._detect_attributes
_detect_attributes(clause) == clause.attrs

\* SpacyClassifier._classify_against_template, steps A to F and the default
_classify_against_template(self, clause, clause_norm, template, lib) ==
    LET clause_text == clause.text
        has_exception ==
            _contains_exception_tokens(clause_text, template.has_exception_tokens)
        stepsA == <<StepResult("exception_check", has_exception, << >>)>>
        exact_match == (clause_norm = template.norm_text)
        stepsB == Append(stepsA,
                    StepResult("exact_normalized_match", exact_match, << >>))
        placeholder_match ==
            _check_placeholder_substitution(clause_text, template.raw_text, lib)
        stepsC == Append(stepsB,
                    StepResult("placeholder_substitution", placeholder_match, << >>))
        fuzzy_score == fuzz_ratio(clause_norm, template.norm_text, lib)
        fuzzy_pass == fuzzy_score >= fuzzy_threshold
        stepsD == Append(stepsC,
                    StepResult("fuzzy_lexical", fuzzy_pass, <<fuzzy_score>>))
        sbert_score == _compute_sbert_similarity(clause_text, template.raw_text, lib)
        sbert_high == sbert_score >= sbert_threshold
        stepsE == IF self.sbert_model
                  THEN Append(stepsD,
                         StepResult("semantic_sbert", sbert_high, <<sbert_score>>))
                  ELSE stepsD
        has_diff_methodology == _detect_methodology_reference(clause)
        stepsF == Append(stepsE,
                    StepResult("different_methodology", has_diff_methodology, << >>))
        final_score == IF fuzzy_score > 0 THEN fuzzy_score ELSE 0
    IN
    IF has_exception THEN Result("Non-Standard", 90, "new_condition", stepsA)
    ELSE IF exact_match THEN Result("Standard", 99, "exact_norm", stepsB)
    ELSE IF placeholder_match THEN Result("Standard", 95, "placeholder_subst", stepsC)
    ELSE IF fuzzy_pass THEN Result("Standard", 90, "lexical_high", stepsD)
    ELSE IF self.sbert_model /\ sbert_high
         THEN Result("Standard", 85, "semantic_high", stepsE)
    ELSE IF self.sbert_model /\ sbert_ambig_low <= sbert_score
                             /\ sbert_score < sbert_ambig_high
         THEN Result("Ambiguous", sbert_score, "semantic_ambiguous",
                     Append(stepsE,
                        StepResult("semantic_ambiguous", TRUE, <<sbert_score>>)))
    ELSE IF has_diff_methodology
         THEN Result("Non-Standard", 85, "different_methodology", stepsF)
    ELSE Result("Non-Standard", final_score, "low_similarity",
                Append(stepsF,
                   StepResult("default_nonstandard", TRUE, <<final_score>>)))

\* ClassificationDecision
ClassificationDecision(clause_id, attribute, template_used, label, score, rule, text, steps) ==
    [clause_id |-> clause_id, attribute |-> attribute,
     template_used |-> template_used, label |-> label, score |-> score,
     rule |-> rule, text |-> text, steps |-> steps]

\* the indices of self.templates whose attribute is the given one, in order
RelevantTemplates(templates, attribute) ==
    SelectSeq([i \in 1..Len(templates) |-> i],
              LAMBDA i : templates[i].attribute = attribute)

\* the same loop started from a best score of 0 whatever it is given: a
\* result that scores 0 is then never kept
RECURSIVE BestAboveZero(_, _, _)
BestAboveZero(results, k, best) ==
    IF k > Len(results) THEN best
    ELSE IF results[k].score > (IF best = << >> THEN 0 ELSE best[1].score)
         THEN BestAboveZero(results, k + 1, <<results[k]>>)
         ELSE BestAboveZero(results, k + 1, best)

BestResultFromZero(results, k, best_score, best) ==
    BestAboveZero(results, k, best)

\* the loop of _classify_clause_for_attribute over results[k..]: a result
\* replaces the best one only when its score is strictly greater
RECURSIVE best_result(_, _, _, _)
best_result(results, k, best_score, best) ==
    IF k > Len(results) THEN best
    ELSE IF results[k].score > best_score
         THEN best_result(results, k + 1, results[k].score, <<results[k]>>)
         ELSE best_result(results, k + 1, best_score, best)

\* SpacyClassifier._classify_clause_for_attribute; libs[i] is what the
\* libraries return for the clause and self.templates[i]
_classify_clause_for_attribute(self, clause, attribute, libs) ==
    LET clause_text == clause.text
        clause_norm == clause.norm_text
        relevant_templates == RelevantTemplates(self.templates, attribute)
        results == [k \in 1..Len(relevant_templates) |->
                      _classify_against_template(self, clause, clause_norm,
                          self.templates[relevant_templates[k]],
                          libs[relevant_templates[k]])]
        best == best_result(results, 1, -100, << >>)
    IN
    IF relevant_templates = << >>
    THEN ClassificationDecision(clause.clause_id, attribute, "", "Non-Standard",
                                0, "no_template_found", clause_text, << >>)
    ELSE IF best # << >>
    THEN ClassificationDecision(clause.clause_id, attribute,
                                self.templates[relevant_templates[1]].name,
                                best[1].label, best[1].score, best[1].rule,
                                clause_text, best[1].steps)
    ELSE ClassificationDecision(clause.clause_id, attribute, "", "Non-Standard",
                                0, "classification_failed", clause_text, << >>)

\* the decisions of one clause in SpacyClassifier.classify_clauses
RECURSIVE DecisionsForAttributes(_, _, _, _)
DecisionsForAttributes(self, clause, detected_attributes, libs) ==
    IF detected_attributes = << >> THEN << >>
    ELSE <<_classify_clause_for_attribute(self, clause, detected_attributes[1], libs)>>
         \o DecisionsForAttributes(self, clause, Tail(detected_attributes), libs)

\* a classifier that remembers the texts it has seen and answers a repeated
\* text from that memory instead of classifying it: what classify_clauses
\* would be if a call depended on the calls before it
RECURSIVE ClassifyRememberingTexts(_, _, _, _)
ClassifyRememberingTexts(self, clauses, libs, seen) ==
    IF clauses = << >> THEN << >>
    ELSE LET clause == clauses[1]
             detected_attributes == _detect_attributes(clause)
         IN (IF detected_attributes = << >> \/ clause.text \in seen
             THEN <<ClassificationDecision(clause.clause_id, "", "", "Skip", 0,
                        "no_target_attribute", clause.text, << >>)>>
             ELSE DecisionsForAttributes(self, clause, detected_attributes, libs[1]))
            \o ClassifyRememberingTexts(self, Tail(clauses), Tail(libs),
                                        seen \cup {clause.text})

ClassifyWithMemory(self, clauses, libs) ==
    ClassifyRememberingTexts(self, clauses, libs, {})

\* SpacyClassifier.classify_clauses; libs[c] holds the library results of
\* clause c
RECURSIVE classify_clauses(_, _, _)
classify_clauses(self, clauses, libs) ==
    IF clauses = << >> THEN << >>
    ELSE LET clause == clauses[1]
             detected_attributes == _detect_attributes(clause)
         IN (IF detected_attributes = << >>
             THEN <<ClassificationDecision(clause.clause_id, "", "", "Skip", 0,
                        "no_target_attribute", clause.text, << >>)>>
             ELSE DecisionsForAttributes(self, clause, detected_attributes, libs[1]))
            \o classify_clauses(self, Tail(clauses), Tail(libs))

(***************************************************************************)
(* The notebook classifier (notebooks/Contract_Clause_Classifier.py).      *)
(***************************************************************************)

FUZZY_THRESHOLD == 85
SBERT_THRESHOLD == 75
SBERT_AMBIG_LOW == 65
SBERT_AMBIG_HIGH == 75

\* the threshold of the cross-encoder gate and of the verb-preserving
\* wording rule in classify_against_template
CE_GATE == 70
MINOR_WORDING_LEX == 80

\* notebook check_placeholder_substitution: ratio at least 85 after the
\* number, date and amount substitutions, lowering and stripping
check_placeholder_substitution(clause_text, template_text, lib) ==
    IF Strip(Lower(clause_text)) = Strip(Lower(template_text)) THEN TRUE
    ELSE lib.placeholder

\* notebook check_key_verbs_preserved(clause_text, template_text, nlp)
check_key_verbs_preserved(clause_text, template_text, nlp) ==
    IF nlp = None THEN FALSE ELSE nlp

\* SimilarityEngines.sbert_score
sbert_score(a, b, lib) == IF a = b THEN 100 ELSE lib.sbert

\* SimilarityEngines.cross_encoder_score: None when the engine is disabled
cross_encoder_score(engines, a, b, lib) ==
    IF ~engines.use_cross_encoder THEN << >> ELSE <<lib.ce>>

\* notebook detect_methodology_reference
detect_methodology_reference(clause) == clause.methodology

\* notebook classify_against_template
classify_against_template(clause, template, engines, lib) ==
    LET c_raw == clause.text
        c_norm == clause.norm
        t_norm == template.norm_text
        has_exc == contains_exception_tokens(c_raw, template.has_exception_tokens)
        steps1 == <<StepResult("exception_check", has_exc, << >>)>>
        exact == (c_norm = t_norm)
        steps2 == Append(steps1, StepResult("exact_normalized_match", exact, << >>))
        placeholder_match ==
            check_placeholder_substitution(c_raw, template.raw_text, lib)
        steps3 == Append(steps2,
                    StepResult("placeholder_substitution", placeholder_match, << >>))
        lex == fuzz_ratio(c_norm, t_norm, lib)
        key_verbs_preserved ==
            check_key_verbs_preserved(c_raw, template.raw_text, None)
        steps4 == Append(steps3,
                    StepResult("key_verbs_preserved", key_verbs_preserved, << >>))
        steps5 == Append(steps4,
                    StepResult("fuzzy_lexical", lex >= FUZZY_THRESHOLD, <<lex>>))
        sbert_sim == sbert_score(c_raw, template.raw_text, lib)
        steps6 == Append(steps5,
                    StepResult("semantic_sbert", sbert_sim >= SBERT_THRESHOLD,
                               <<sbert_sim>>))
        has_diff_methodology == detect_methodology_reference(clause)
        steps7 == Append(steps6,
                    StepResult("different_methodology", has_diff_methodology, << >>))
        ce == cross_encoder_score(engines, c_raw, template.raw_text, lib)
        ce_high == ce # << >> /\ ce[1] >= CE_GATE
        steps8 == IF engines.use_cross_encoder
                  THEN Append(steps7,
                         StepResult("deberta_cross_encoder", ce_high, ce))
                  ELSE steps7
    IN
    IF has_exc THEN Result("Non-Standard", 90, "new_condition", steps1)
    ELSE IF exact THEN Result("Standard", 99, "exact_norm", steps2)
    ELSE IF placeholder_match THEN Result("Standard", 95, "placeholder_subst", steps3)
    ELSE IF key_verbs_preserved /\ lex >= MINOR_WORDING_LEX
         THEN Result("Standard", 88, "minor_wording_diff", steps4)
    ELSE IF lex >= FUZZY_THRESHOLD THEN Result("Standard", 90, "lexical_high", steps5)
    ELSE IF sbert_sim >= SBERT_THRESHOLD
         THEN Result("Standard", 85, "semantic_high", steps6)
    ELSE IF SBERT_AMBIG_LOW <= sbert_sim /\ sbert_sim < SBERT_AMBIG_HIGH
         THEN Result("Ambiguous", sbert_sim, "semantic_ambiguous",
                     Append(steps6,
                        StepResult("semantic_ambiguous_band", TRUE, <<sbert_sim>>)))
    ELSE IF has_diff_methodology
         THEN Result("Non-Standard", 85, "different_methodology", steps7)
    ELSE IF engines.use_cross_encoder /\ ce_high
         THEN Result("Standard", ce[1], "deberta_ce_high", steps8)
    ELSE Result("Non-Standard", sbert_sim, "low_similarity",
                Append(steps8,
                   StepResult("default_nonstandard", TRUE, <<sbert_sim>>)))

\* score_key of choose_best_template: the label priority
priority(label) ==
    CASE label = "Standard" -> 3
      [] label = "Ambiguous" -> 2
      [] label = "Non-Standard" -> 1
      [] OTHER -> 0

\* x sorts before y under score_key with reverse=True
KeyGreater(x, y) ==
    \/ priority(x.label) > priority(y.label)
    \/ priority(x.label) = priority(y.label) /\ x.score > y.score

\* sorted(ranked, key=score_key, reverse=True)[0]: the first entry that no
\* other entry exceeds (the sort is stable)
SortedFirst(ranked) ==
    LET k == CHOOSE k \in 1..Len(ranked) :
                /\ \A j \in 1..Len(ranked) : ~KeyGreater(ranked[j], ranked[k])
                /\ \A j \in 1..(k - 1) : KeyGreater(ranked[k], ranked[j])
    IN ranked[k]

\* a ranked entry (tpl_name, label, score, rule, steps)
Ranked(tpl_name, r) ==
    [tpl_name |-> tpl_name, label |-> r.label, score |-> r.score,
     rule |-> r.rule, steps |-> r.steps]

\* notebook choose_best_template
choose_best_template(clause, templates, engines, target_attribute, libs) ==
    LET matching_templates == RelevantTemplates(templates, target_attribute)
        ranked == [k \in 1..Len(matching_templates) |->
                     Ranked(templates[matching_templates[k]].name,
                            classify_against_template(clause,
                                templates[matching_templates[k]], engines,
                                libs[matching_templates[k]]))]
    IN
    IF matching_templates = << >>
    THEN Ranked("No_Template", Result("Skip", 0, "no_template", << >>))
    ELSE SortedFirst(ranked)

\* ClauseDecision of the notebooks
ClauseDecision(clause_id, attribute, template_used, label, score, rule, steps, text) ==
    [clause_id |-> clause_id, attribute |-> attribute,
     template_used |-> template_used, label |-> label, score |-> score,
     rule |-> rule, steps |-> steps, text |-> text]

\* notebook detect_attribute_for_clause_spacy_regex: the first attribute
\* name that matches, tagged "(keyword)", or None
detect_attribute_for_clause_spacy_regex(clause, attribute_names) ==
    LET hits == SelectSeq(attribute_names,
                          LAMBDA a : \E i \in 1..Len(clause.attrs) : clause.attrs[i] = a)
    IN IF clause.text = << >> \/ Strip(clause.text) = << >> \/ hits = << >>
       THEN None
       ELSE <<hits[1], "keyword">>

\* notebook classify_clauses
RECURSIVE nb_classify_clauses(_, _, _, _, _)
nb_classify_clauses(clauses, attribute_names, templates, engines, libs) ==
    IF clauses = << >> THEN << >>
    ELSE LET cl == clauses[1]
             attr == detect_attribute_for_clause_spacy_regex(cl, attribute_names)
             clean_attr == attr[1]
             best == choose_best_template(cl, templates, engines, clean_attr, libs[1])
         IN <<IF attr = None
              THEN ClauseDecision(cl.clause_id, None, None, "Skip", 0,
                                  "no_target_attribute", << >>, cl.text)
              ELSE ClauseDecision(cl.clause_id, attr, best.tpl_name, best.label,
                                  best.score, best.rule, best.steps, cl.text)>>
            \o nb_classify_clauses(Tail(clauses), attribute_names, templates,
                                   engines, Tail(libs))

(***************************************************************************)
(* The cross-encoder-first classifier                                      *)
(* (notebooks/Contract_Clause_Classifier_DeBERTa.py).                      *)
(***************************************************************************)

DEBERTA_FUZZY_THRESHOLD == 85
DEBERTA_SBERT_THRESHOLD == 75
DEBERTA_SBERT_AMBIG_LOW == 65
DEBERTA_SBERT_AMBIG_HIGH == 75
DEBERTA_THRESHOLD == 70
DEBERTA_HIGH == 85
DEBERTA_AMBIG_LOW == 60

\* normalize_for_compare: placeholders applied, punctuation (all but the
\* percent sign) deleted, white space collapsed, lowered.  On the character
\* classes a placeholder token is a word, as the word it replaces.
normalize_for_compare(s) ==
    to_ascii_lower(RemoveChars(s, {".", "'"}))

\* TemplateClause of this notebook, as its load_templates builds it from the
\* text of one template file
DebertaTemplateClause(name, raw) ==
    [name |-> name, raw_text |-> raw, norm_text |-> normalize_for_compare(raw),
     has_exception_tokens |-> contains_exception_tokens(raw, FALSE)]

\* classify_against_template_deberta
classify_against_template_deberta(clause, template, engines, lib) ==
    LET c_raw == clause.text
        c_norm == clause.norm
        t_norm == template.norm_text
        has_exc == contains_exception_tokens(c_raw, template.has_exception_tokens)
        steps1 == <<StepResult("exception_check", has_exc, << >>)>>
        ce_score == cross_encoder_score(engines, c_raw, template.raw_text, lib)
        ce_run == engines.use_cross_encoder /\ ce_score # None
        steps2 == IF ce_run
                  THEN Append(steps1,
                         StepResult("deberta_cross_encoder",
                                    ce_score[1] >= DEBERTA_THRESHOLD, ce_score))
                  ELSE steps1
        exact == (c_norm = t_norm)
        steps3 == Append(steps2, StepResult("exact_normalized_match", exact, << >>))
        lex == fuzz_ratio(c_norm, t_norm, lib)
        steps4 == Append(steps3,
                    StepResult("fuzzy_lexical", lex >= DEBERTA_FUZZY_THRESHOLD, <<lex>>))
        sbert_sim == sbert_score(c_raw, template.raw_text, lib)
        steps5 == Append(steps4,
                    StepResult("semantic_sbert",
                               sbert_sim >= DEBERTA_SBERT_THRESHOLD, <<sbert_sim>>))
        final_score == IF ce_run THEN ce_score[1] ELSE sbert_sim
    IN
    IF has_exc THEN Result("Non-Standard", 95, "new_condition", steps1)
    ELSE IF ce_run /\ ce_score[1] >= DEBERTA_HIGH
         THEN Result("Standard", ce_score[1], "deberta_high", steps2)
    ELSE IF ce_run /\ ce_score[1] >= DEBERTA_THRESHOLD
         THEN Result("Standard", ce_score[1], "deberta_medium", steps2)
    ELSE IF ce_run /\ ce_score[1] >= DEBERTA_AMBIG_LOW
         THEN Result("Ambiguous", ce_score[1], "deberta_ambiguous",
                     Append(steps2,
                        StepResult("deberta_ambiguous", TRUE, ce_score)))
    ELSE IF exact THEN Result("Standard", 99, "exact_norm", steps3)
    ELSE IF lex >= DEBERTA_FUZZY_THRESHOLD
         THEN Result("Standard", 92, "lexical_high", steps4)
    ELSE IF sbert_sim >= DEBERTA_SBERT_THRESHOLD
         THEN Result("Standard", 88, "semantic_high", steps5)
    ELSE IF DEBERTA_SBERT_AMBIG_LOW <= sbert_sim
            /\ sbert_sim < DEBERTA_SBERT_AMBIG_HIGH
         THEN Result("Ambiguous", sbert_sim, "semantic_ambiguous",
                     Append(steps5,
                        StepResult("semantic_ambiguous_band", TRUE, <<sbert_sim>>)))
    ELSE Result("Non-Standard", final_score, "low_similarity",
                Append(steps5,
                   StepResult("default_nonstandard", TRUE, <<final_score>>)))

\* the ranked entry is Non-Standard by the exception check
ExceptionBased(x) ==
    /\ x.label = "Non-Standard"
    /\ \E i \in 1..Len(x.steps) :
          x.steps[i].step_name = "exception_check" /\ x.steps[i].passed

\* choose_best_template of this notebook: every template is ranked; the
\* first exception-based Non-Standard entry is returned at once, otherwise
\* the first entry of the sort
choose_best_template_deberta(clause, templates, engines, libs) ==
    LET ranked == [k \in 1..Len(templates) |->
                     Ranked(templates[k].name,
                            classify_against_template_deberta(clause, templates[k],
                                                              engines, libs[k]))]
        exc == SelectSeq(ranked, ExceptionBased)
    IN IF exc # << >> THEN exc[1] ELSE SortedFirst(ranked)

\* detect_attribute_for_clause of this notebook: the first attribute whose
\* seeds or spec patterns match, tagged with the kind of match, or None
detect_attribute_for_clause(clause, specs) ==
    LET hits == SelectSeq(specs,
                          LAMBDA a : \E i \in 1..Len(clause.attrs) : clause.attrs[i] = a)
    IN IF clause.text = << >> \/ Strip(clause.text) = << >> \/ hits = << >>
       THEN None
       ELSE <<hits[1], "regex">>

\* classify_clauses of this notebook
RECURSIVE deberta_classify_clauses(_, _, _, _, _)
deberta_classify_clauses(clauses, specs, templates, engines, libs) ==
    IF clauses = << >> THEN << >>
    ELSE LET cl == clauses[1]
             attr == detect_attribute_for_clause(cl, specs)
             best == choose_best_template_deberta(cl, templates, engines, libs[1])
         IN <<IF attr = None
              THEN ClauseDecision(cl.clause_id, None, None, "Skip", 0,
                                  "no_target_attribute", << >>, cl.text)
              ELSE ClauseDecision(cl.clause_id, attr, best.tpl_name, best.label,
                                  best.score, best.rule, best.steps, cl.text)>>
            \o deberta_classify_clauses(Tail(clauses), specs, templates, engines,
                                        Tail(libs))

(***************************************************************************)
(* Clauses as the segmenters build them.                                   *)
(***************************************************************************)

\* ClauseExtractor.extract_clauses: one clause dictionary; attrs and
\* methodology are what the word patterns find in the text
ExtractedClause(clause_id, clause_text, attrs, methodology) ==
    [clause_id |-> clause_id, text |-> Strip(clause_text),
     norm_text |-> _normalize_text(clause_text),
     attrs |-> attrs, methodology |-> methodology]

\* notebook split_into_clauses: one clause dictionary
NotebookClause(clause_id, sp, attrs, methodology) ==
    LET s == normalize_whitespace(sp) IN
    [clause_id |-> clause_id, text |-> s, norm |-> normalize_for_matching(s),
     attrs |-> attrs, methodology |-> methodology]

\* split_into_clauses of the cross-encoder notebook: one clause dictionary
DebertaClause(clause_id, sp, attrs, methodology) ==
    LET s == normalize_whitespace(sp) IN
    [clause_id |-> clause_id, text |-> s, norm |-> normalize_whitespace(Lower(s)),
     attrs |-> attrs, methodology |-> methodology]

(***************************************************************************)
(* State.                                                                  *)
(***************************************************************************)

VARIABLES
    variant,     \* which classifier is under test: "worker", "notebook", "deberta"
    templates,   \* the template list the classifier was constructed with
    engines,     \* [sbert_model, use_cross_encoder]: which models are loaded
    clause,      \* the clause handed to the classifier
    ranked,      \* the cascade results of the call, one per template tried,
                 \* each with what the libraries returned for that template
    decisions,   \* the decisions the call returned
    done,        \* the call has returned
    doc,         \* the uploaded contract: file name, state and paragraphs
    library,     \* what the libraries return on each paragraph of the contract
    contract,    \* the Contract row
    rows,        \* the ContractClause rows of the contract, in insertion order
    clauses_file,   \* the <id>_clauses.json file, None while absent
    results_file,   \* the <id>_classification_results.json file
    queue,       \* the messages waiting in the broker, per task
    task,        \* the task the worker process is executing, "idle" if none
    pc,          \* where the executing task stands
    session,     \* the classification results held by the running stage 2
    aborts,      \* how many times the worker process was lost
    models,      \* how often the worker process has initialised each model
    cache,       \* the template cache files of each state, shared by all runs
    loader,      \* the TemplateLoader.load_template call of each contract run
    mcache,      \* the ModelCache class and its singleton in one process
    threads,     \* the threads of that process that use the model cache
    workers,     \* the pool processes that execute stage-2 tasks side by side
    db,          \* the backend's tables: contracts, file_records, clauses
    upload_dir,  \* the files FileSystemService and the worker keep on disk
    requests,    \* the API requests being served, one per slot
    next_id      \* the next fresh Contract id

cvars == <<variant, templates, engines, clause, ranked, decisions, done>>

pvars == <<doc, library, contract, rows, clauses_file, results_file, queue, task,
           pc, session, aborts, models>>

lvars == <<cache, loader>>

mvars == <<mcache, threads>>

\* the variables of the services beside the classifier, the pipeline and the
\* template loader
gvars == <<workers>>

\* the variables of the upload and delete endpoints
uvars == <<db, upload_dir, requests, next_id>>

avars == <<mcache, threads, workers, db, upload_dir, requests, next_id>>

vars == <<variant, templates, engines, clause, ranked, decisions, done,
          doc, library, contract, rows, clauses_file, results_file, queue, task,
          pc, session, aborts, models, cache, loader,
          mcache, threads, workers, db, upload_dir, requests, next_id>>

(***************************************************************************)
(* Inputs of the classifier runs.                                          *)
(***************************************************************************)

FuzzyValues == {0, 84, 85}
SbertValues == {-20, 59, 60, 64, 65, 74, 75}
CeValues == {59, 60, 69, 70, 85}

\* what the libraries may return for one clause and one template
Sigs == [placeholder : BOOLEAN, fuzzy : FuzzyValues, sbert : SbertValues,
         ce : CeValues]

\* library results that reach each rule of a cascade once, used where several
\* templates are tried in one call
SelSigs ==
    {[placeholder |-> TRUE, fuzzy |-> 0, sbert |-> -20, ce |-> 59],
     [placeholder |-> FALSE, fuzzy |-> 85, sbert |-> -20, ce |-> 59],
     [placeholder |-> FALSE, fuzzy |-> 84, sbert |-> 75, ce |-> 85],
     [placeholder |-> FALSE, fuzzy |-> 84, sbert |-> 65, ce |-> 60],
     [placeholder |-> FALSE, fuzzy |-> 84, sbert |-> -20, ce |-> 59],
     [placeholder |-> FALSE, fuzzy |-> 0, sbert |-> -20, ce |-> 70]}

\* the library results that matter to a variant under a configuration: a
\* signal the variant never reads is held at one value
SigsFor(v, e) ==
    {g \in Sigs :
        /\ (v = "worker" /\ ~e.sbert_model) => g.sbert = -20
        /\ (v = "worker" \/ ~e.use_cross_encoder) => g.ce = 59
        /\ v = "deberta" => ~g.placeholder}

NoSig == [placeholder |-> FALSE, fuzzy |-> 0, sbert |-> -20, ce |-> 59]

\* library results for the templates at the indices idx, NoSig elsewhere
LibsOver(n, idx, sigs) ==
    {[i \in 1..n |-> IF i \in idx THEN f[i] ELSE NoSig] : f \in [idx -> sigs]}

Engines == [sbert_model : BOOLEAN, use_cross_encoder : BOOLEAN]

\* template files of the cross-encoder notebook
DebertaTemplateTexts ==
    {<<"A", ".", "7", "'", "a">>, <<"X", ".", "A">>, <<"A", " ", "a">>}

DebertaTemplates ==
    {<<DebertaTemplateClause("TN", raw)>> : raw \in DebertaTemplateTexts}
    \cup {<<DebertaTemplateClause("TN", <<"A", ".", "7", "'", "a">>),
            DebertaTemplateClause("WA", <<"X", ".", "A">>)>>}

\* the template lists a classifier is constructed with: the store of one
\* state, of both states, and a store that lacks the first attribute
StoreLists ==
    {load_templates(<<st>>) : st \in States}
    \cup {load_templates(<<"TN", "WA">>), Tail(load_templates(<<"TN">>))}

TemplateListsFor(v) == IF v = "deberta" THEN DebertaTemplates ELSE StoreLists

\* the attribute detections tried
AttrChoices ==
    {<< >>, <<"Medicaid Timely Filing", "Medicare Timely Filing">>}
    \cup {<<a>> : a \in AttributeNames}

\* the templates of the list tl that a clause with detections attrs is
\* compared with
TriedIndices(v, tl, attrs) ==
    CASE attrs = << >> -> {}
      [] v = "deberta" -> 1..Len(tl)
      [] v = "notebook" -> {i \in 1..Len(tl) : tl[i].attribute = attrs[1]}
      [] OTHER -> {i \in 1..Len(tl) :
                     \E k \in 1..Len(attrs) : tl[i].attribute = attrs[k]}

\* the clause texts tried against a template list: every short text when one
\* template is tried, two short texts otherwise, and the template texts
ClauseTextsFor(v, tl, attrs) ==
    (IF Cardinality(TriedIndices(v, tl, attrs)) = 1
     THEN Texts ELSE {<<"a">>, <<"x">>, <<"X", " ">>})
    \cup {tl[i].raw_text : i \in TriedIndices(v, tl, attrs)}

MakeClause(v, text, attrs, methodology) ==
    CASE v = "worker" -> ExtractedClause(1, text, attrs, methodology)
      [] v = "notebook" -> NotebookClause(1, text, attrs, methodology)
      [] OTHER -> DebertaClause(1, text, attrs, methodology)

\* Contract(...) as create_contract stores it: status "uploaded", no error
\* message (written ""), no clause counters (written 0, as "or 0" reads them)
NewContract ==
    [status |-> "uploaded", error_message |-> "", total_clauses |-> 0,
     standard_clauses |-> 0, non_standard_clauses |-> 0, ambiguous_clauses |-> 0]

(***************************************************************************)
(* TemplateLoader.load_template (worker/templates/template_loader.py) and  *)
(* its cache files.  A template text is rendered by the attributes whose   *)
(* section markers it holds, in document order; a file by whether it       *)
(* exists and what a reader finds in it.                                    *)
(***************************************************************************)

MaxRuns == 2
Runs == 1..MaxRuns

\* the attributes whose section _parse_template_attributes looks for in the
\* text of a state
SectionsSought(state) ==
    IF state = "TN"
    THEN <<"Medicaid Fee Schedule", "Medicare Fee Schedule",
           "Medicaid Timely Filing", "No Steerage/SOC">>
    ELSE <<"Medicaid Fee Schedule", "Medicare Fee Schedule", "No Steerage/SOC">>

\* the cleaned text extracted from the template PDF of a state
TemplateText(state) == SectionsSought(state)

\* the attributes _parse_template_attributes sets to a fixed sentence
DefaultAttributes(state) ==
    IF state = "TN" THEN {"Medicare Timely Filing"}
    ELSE {"Medicaid Timely Filing", "Medicare Timely Filing"}

\* TemplateLoader._parse_template_attributes: the section of every marker
\* found in the text, the fixed sentences, and "" for what is missing
_parse_template_attributes(text, state) ==
    [a \in AttributeNames |->
        IF a \in DefaultAttributes(state) THEN "default"
        ELSE IF \E i \in 1..Len(text) : text[i] = a THEN "section"
        ELSE ""]

\* a file that does not exist, and a file opened for writing and not yet
\* written
NoFile == [exists |-> FALSE, valid |-> FALSE, text |-> << >>,
           attributes |-> [a \in AttributeNames |-> ""]]
OpenedFile == [NoFile EXCEPT !.exists = TRUE]

\* a run that is not in load_template
NoLoad == [pc |-> "idle", state |-> "TN", cleaned_text |-> << >>,
           attributes |-> [a \in AttributeNames |-> ""], template_data |-> None]

\* the cache directory is empty and no run is loading
LoaderAtRest ==
    /\ cache = [state \in States |-> [text |-> NoFile, attributes |-> NoFile]]
    /\ loader = [r \in Runs |-> NoLoad]

(***************************************************************************)
(* ModelCache (worker/model_cache.py): the class, its singleton and the    *)
(* threads of one process that call it.  A model is None or the number of  *)
(* the constructor call that built it; a lock is the number of the lock    *)
(* object and the thread that holds it, 0 if none.                         *)
(***************************************************************************)

MaxThreads == 2
Threads == 1..MaxThreads

ModelKinds == {"sbert", "spacy"}

\* the class before the module is imported: no instance
NoModelCache ==
    [instance |-> FALSE, initialized |-> FALSE,
     model |-> [k \in ModelKinds |-> None],
     lock |-> [k \in ModelKinds |-> [object |-> 0, holder |-> 0]],
     constructed |-> [k \in ModelKinds |-> 0]]

\* ModelCache.__new__: the instance is created once, not initialised
ModelCache_new(cls) ==
    IF ~cls.instance THEN [cls EXCEPT !.instance = TRUE, !.initialized = FALSE]
    ELSE cls

\* a cache that sets its models to None and makes new locks whenever it is
\* constructed
ModelCacheInitUnguarded(self) ==
    [self EXCEPT !.model = [k \in ModelKinds |-> None],
                 !.lock = [k \in ModelKinds |->
                             [object |-> self.lock[k].object + 1, holder |-> 0]],
                 !.initialized = TRUE]

\* ModelCache.__init__: models and locks are set only while _initialized is
\* False
ModelCache_init(self) ==
    IF ~self.initialized
    THEN [self EXCEPT !.model = [k \in ModelKinds |-> None],
                      !.lock = [k \in ModelKinds |->
                                  [object |-> self.lock[k].object + 1,
                                   holder |-> 0]],
                      !.initialized = TRUE]
    ELSE self

\* a thread that is in no call
IdleThread ==
    [pc |-> "idle", kind |-> "sbert", seen |-> [k \in ModelKinds |-> None],
     got |-> [k \in ModelKinds |-> None]]

\* the module is not imported, no thread uses it
ModelCacheAtRest ==
    /\ mcache = NoModelCache
    /\ threads = [t \in Threads |-> IdleThread]

(***************************************************************************)
(* A worker pool: several processes that take stage-2 messages of one      *)
(* contract at the same time, each with its own database session.          *)
(***************************************************************************)

MaxWorkers == 2
Workers == 1..MaxWorkers

\* a pool process that executes no task
IdleWorker ==
    [pc |-> "idle", status |-> "", session |-> None, passed |-> FALSE,
     stored |-> FALSE]

PoolAtRest == workers = [w \in Workers |-> IdleWorker]

(***************************************************************************)
(* The upload and delete endpoints of the backend: the requests being     *)
(* served, the tables they write and the upload directory.                 *)
(***************************************************************************)

MaxRequests == 2
Requests == 1..MaxRequests

MaxContracts == 2
ContractIds == 1..MaxContracts

\* the contents of the files a client uploads; the file hash of a content
\* is the content's name
FileBytes == {"pdf_a", "pdf_b"}

\* the kinds of file kept for a contract
FileTypes == {"original", "extracted_text", "clause_data",
              "classification_results"}

\* a slot that serves no request
IdleRequest ==
    [pc |-> "idle", op |-> "", bytes |-> "", id |-> 0, created |-> FALSE,
     response |-> ""]

\* empty tables
NoRows == [contracts |-> {}, file_records |-> {}, clauses |-> {}]

ApiAtRest ==
    /\ db = NoRows
    /\ upload_dir = {}
    /\ requests = [r \in Requests |-> IdleRequest]
    /\ next_id = 1

\* the services beside the classifier, the pipeline and the loader are idle
ServicesAtRest ==
    /\ ModelCacheAtRest
    /\ PoolAtRest
    /\ ApiAtRest

\* a process that has initialised no model
NoModels == [spacy_loads |-> 0, sbert_loads |-> 0]

\* no contract is being processed
PipelineAtRest ==
    /\ doc = [original_filename |-> <<"W", "A">>, state |-> "WA",
              paragraphs |-> << >>]
    /\ library = << >>
    /\ contract = NewContract
    /\ rows = << >>
    /\ clauses_file = None
    /\ results_file = None
    /\ queue = [stage1 |-> 0, stage2 |-> 0]
    /\ task = "idle"
    /\ pc = "idle"
    /\ session = None
    /\ aborts = 0
    /\ models = NoModels

InitCascade ==
    /\ PipelineAtRest
    /\ LoaderAtRest
    /\ ServicesAtRest
    /\ variant \in {"worker", "notebook", "deberta"}
    /\ engines \in Engines
    /\ (variant = "worker") => ~engines.use_cross_encoder
    /\ (variant # "worker") => engines.sbert_model
    /\ templates \in TemplateListsFor(variant)
    /\ \E attrs \in AttrChoices, methodology \in BOOLEAN :
         \E text \in ClauseTextsFor(variant, templates, attrs) :
            clause = MakeClause(variant, text, attrs, methodology)
    /\ ranked = {}
    /\ decisions = << >>
    /\ done = FALSE

\* the library results tried in one call: every combination when one
\* template is tried on a one-character text or on the template's own text,
\* the selected combinations otherwise
LibsFor(v, tl, e, cl) ==
    LET idx == TriedIndices(v, tl, cl.attrs)
        full == /\ Cardinality(idx) = 1
                /\ (Len(cl.text) <= 1 \/ \E i \in idx : tl[i].raw_text = cl.text)
    IN LibsOver(Len(tl), idx,
                IF full THEN SigsFor(v, e) ELSE SelSigs \cap SigsFor(v, e))

\* SpacyClassifier(templates, target_attributes).classify_clauses([clause])
WorkerClassify ==
    /\ variant = "worker" /\ ~done
    /\ \E libs \in LibsFor(variant, templates, engines, clause) :
         LET self == [templates |-> templates, sbert_model |-> engines.sbert_model] IN
         /\ decisions' = classify_clauses(self, <<clause>>, <<libs>>)
         /\ ranked' =
              {[attribute |-> templates[i].attribute, template |-> templates[i],
                lib |-> libs[i],
                result |-> _classify_against_template(self, clause, clause.norm_text,
                                                      templates[i], libs[i])] :
                 i \in TriedIndices(variant, templates, clause.attrs)}
    /\ done' = TRUE
    /\ UNCHANGED <<variant, templates, engines, clause>>
    /\ UNCHANGED pvars
    /\ UNCHANGED lvars
    /\ UNCHANGED avars

\* notebook classify_clauses([clause], TARGET_ATTRIBUTES, templates, engines)
NotebookClassify ==
    /\ variant = "notebook" /\ ~done
    /\ \E libs \in LibsFor(variant, templates, engines, clause) :
         /\ decisions' = nb_classify_clauses(<<clause>>, TARGET_ATTRIBUTES, templates,
                                             engines, <<libs>>)
         /\ ranked' =
              {[attribute |-> templates[i].attribute, template |-> templates[i],
                lib |-> libs[i],
                result |-> classify_against_template(clause, templates[i], engines,
                                                     libs[i])] :
                 i \in TriedIndices(variant, templates, clause.attrs)}
    /\ done' = TRUE
    /\ UNCHANGED <<variant, templates, engines, clause>>
    /\ UNCHANGED pvars
    /\ UNCHANGED lvars
    /\ UNCHANGED avars

\* classify_clauses([clause], specs, templates, engines) of the cross-encoder
\* notebook
DebertaClassify ==
    /\ variant = "deberta" /\ ~done
    /\ \E libs \in LibsFor(variant, templates, engines, clause) :
         /\ decisions' = deberta_classify_clauses(<<clause>>, TARGET_ATTRIBUTES,
                                                  templates, engines, <<libs>>)
         /\ ranked' =
              {[attribute |-> clause.attrs[1], template |-> templates[i],
                lib |-> libs[i],
                result |-> classify_against_template_deberta(clause, templates[i],
                                                             engines, libs[i])] :
                 i \in TriedIndices(variant, templates, clause.attrs)}
    /\ done' = TRUE
    /\ UNCHANGED <<variant, templates, engines, clause>>
    /\ UNCHANGED pvars
    /\ UNCHANGED lvars
    /\ UNCHANGED avars

NextCascade == WorkerClassify \/ NotebookClassify \/ DebertaClassify

SpecCascade == InitCascade /\ [][NextCascade]_vars

(***************************************************************************)
(* Part 3.  The pipeline: stage 1 (preprocess_contract) and stage 2        *)
(* (classify_contract) run by one Celery worker process over one contract. *)
(* A message is acknowledged when its task returns (task_acks_late); when  *)
(* the worker process is lost the message goes back to the queue           *)
(* (task_reject_on_worker_lost).                                           *)
(***************************************************************************)

MaxClauses == 2
MaxAborts == 2

\* str.upper() on a file name
Upper(s) == [i \in 1..Len(s) |->
                CASE s[i] = "t" -> "T" [] s[i] = "n" -> "N" [] s[i] = "w" -> "W"
                  [] s[i] = "a" -> "A" [] OTHER -> s[i]]

\* "TN" in s
HasTN(s) == \E i \in 1..(Len(s) - 1) : s[i] = "T" /\ s[i + 1] = "N"

\* classify_contract line 110: the state whose templates are used
ContractState(original_filename) ==
    IF HasTN(Upper(original_filename)) THEN "TN" ELSE "WA"

\* ClauseExtractor.extract_clauses: clause i + 1 for paragraph i
extract_clauses(paragraphs) ==
    [i \in 1..Len(paragraphs) |->
        ExtractedClause(i, paragraphs[i].text, paragraphs[i].attrs,
                        paragraphs[i].methodology)]

\* the number of results with one of the given labels
RECURSIVE CountLabels(_, _)
CountLabels(results, labels) ==
    IF results = << >> THEN 0
    ELSE (IF results[1].label \in labels THEN 1 ELSE 0)
         + CountLabels(Tail(results), labels)

\* classify_contract line 155: the results that are stored as rows
valid_classifications(classification_results) ==
    SelectSeq(classification_results,
              LAMBDA r : r.label \in {"Standard", "Non-Standard", "Ambiguous"})

\* ContractClause(...) built from one result
ContractClause(result) ==
    [clause_number |-> result.clause_id, attribute_name |-> result.attribute,
     classification |-> result.label, match_type |-> result.rule]

\* results_data written to the results file
results_data(clauses, classification_results) ==
    [total_clauses |-> Len(clauses),
     classified_clauses |-> Len(valid_classifications(classification_results)),
     results |-> classification_results]

\* ContractService.get_contract_results: nothing unless the contract is
\* completed, otherwise every stored row and the stored counters
get_contract_results(c, stored) ==
    IF c.status # "completed"
    THEN [status |-> c.status, clauses |-> << >>,
          summary |-> [total_clauses |-> 0, standard_clauses |-> 0,
                       non_standard_clauses |-> 0]]
    ELSE [status |-> c.status, clauses |-> stored,
          summary |-> [total_clauses |-> c.total_clauses,
                       standard_clauses |-> c.standard_clauses,
                       non_standard_clauses |-> c.non_standard_clauses]]

\* the paragraphs a contract is made of, each with what the libraries return
\* for it against any template
ParagraphKinds ==
    {[text |-> <<"a">>, attrs |-> << >>, methodology |-> FALSE,
      sig |-> NoSig],
     [text |-> <<"A", " ", "a">>, attrs |-> <<"No Steerage/SOC">>,
      methodology |-> FALSE,
      sig |-> [placeholder |-> FALSE, fuzzy |-> 85, sbert |-> 75, ce |-> 59]],
     [text |-> <<"a", ".", "7">>,
      attrs |-> <<"Medicaid Timely Filing", "Medicare Timely Filing">>,
      methodology |-> FALSE,
      sig |-> [placeholder |-> FALSE, fuzzy |-> 84, sbert |-> 65, ce |-> 59]],
     [text |-> <<"X", " ", "a">>, attrs |-> <<"Medicaid Timely Filing">>,
      methodology |-> TRUE,
      sig |-> [placeholder |-> FALSE, fuzzy |-> 0, sbert |-> -20, ce |-> 59]]}

FileNames == {<<"t", "n", "1">>, <<"W", "A", "1">>}

\* no classifier run is under test
CascadeAtRest ==
    /\ variant = "worker"
    /\ templates = << >>
    /\ clause = ExtractedClause(1, <<"a">>, << >>, FALSE)
    /\ ranked = {}
    /\ decisions = << >>
    /\ done = TRUE

\* celery_app.init_worker_process: a starting worker process pre-warms the
\* model cache, which initialises the spaCy pipeline and, where it can be
\* loaded, the encoder
init_worker_process(e) ==
    [spacy_loads |-> 1, sbert_loads |-> IF e.sbert_model THEN 1 ELSE 0]

\* SpacyClassifier.__init__ lines 57-70: spacy.load and SentenceTransformer
\* are called by the constructor itself
SpacyClassifier_init(m, e) ==
    [spacy_loads |-> m.spacy_loads + 1,
     sbert_loads |-> m.sbert_loads + (IF e.sbert_model THEN 1 ELSE 0)]

\* a contract was uploaded and a message for the task registered as
\* tasks.stage1_preprocessing.preprocess_contract is in the queue
Init ==
    /\ CascadeAtRest
    /\ LoaderAtRest
    /\ ServicesAtRest
    /\ engines \in {e \in Engines : ~e.use_cross_encoder}
    /\ \E n \in 0..MaxClauses :
         \E kinds \in [1..n -> ParagraphKinds], name \in FileNames,
            state \in States :
            /\ doc = [original_filename |-> name, state |-> state,
                      paragraphs |-> [i \in 1..n |->
                          [text |-> kinds[i].text, attrs |-> kinds[i].attrs,
                           methodology |-> kinds[i].methodology]]]
            /\ library = [i \in 1..n |->
                            [t \in 1..Len(TARGET_ATTRIBUTES) |-> kinds[i].sig]]
    /\ contract = NewContract
    /\ rows = << >>
    /\ clauses_file = None
    /\ results_file = None
    /\ queue = [stage1 |-> 1, stage2 |-> 0]
    /\ task = "idle"
    /\ pc = "idle"
    /\ session = None
    /\ aborts = 0
    /\ models = init_worker_process(engines)

\* preprocess_contract lines 38-58: the message is delivered, the status
\* becomes "preprocessing" and is committed, whatever it was
Stage1Start ==
    /\ task = "idle" /\ queue.stage1 > 0
    /\ queue' = [queue EXCEPT !.stage1 = @ - 1]
    /\ contract' = [contract EXCEPT !.status = "preprocessing"]
    /\ task' = "stage1"
    /\ pc' = "extract"
    /\ UNCHANGED <<doc, library, rows, clauses_file, results_file, session, aborts>>
    /\ UNCHANGED models
    /\ UNCHANGED cvars
    /\ UNCHANGED lvars
    /\ UNCHANGED avars

\* preprocess_contract lines 72-94 and 231-257: the extraction fails or an
\* exception is raised; the contract is failed with a message and the task
\* returns
Stage1Fail ==
    /\ task = "stage1" /\ pc = "extract"
    /\ \E msg \in {"Text extraction failed", "exception"} :
         contract' = [contract EXCEPT !.status = "failed", !.error_message = msg]
    /\ task' = "idle"
    /\ pc' = "idle"
    /\ UNCHANGED <<doc, library, rows, clauses_file, results_file, queue, session,
                   aborts>>
    /\ UNCHANGED models
    /\ UNCHANGED cvars
    /\ UNCHANGED lvars
    /\ UNCHANGED avars

\* preprocess_contract lines 96-196: the clauses are extracted and written to
\* the clause file, the status becomes "preprocessing_completed"
Stage1Extract ==
    /\ task = "stage1" /\ pc = "extract"
    /\ clauses_file' = <<extract_clauses(doc.paragraphs)>>
    /\ contract' = [contract EXCEPT !.status = "preprocessing_completed"]
    /\ pc' = "queue"
    /\ UNCHANGED <<doc, library, rows, results_file, queue, task, session, aborts>>
    /\ UNCHANGED models
    /\ UNCHANGED cvars
    /\ UNCHANGED lvars
    /\ UNCHANGED avars

\* a stage 1 that sends the stage-2 message before it has extracted the
\* clauses and committed its status
StageTwoQueuedFirst ==
    /\ task = "stage1" /\ pc = "extract"
    /\ queue.stage2 = 0
    /\ queue' = [queue EXCEPT !.stage2 = @ + 1]
    /\ UNCHANGED <<doc, library, contract, rows, clauses_file, results_file, task,
                   pc, session, aborts, models>>
    /\ UNCHANGED <<cvars, lvars, avars>>

\* preprocess_contract lines 198-211: stage 2 is queued
Stage1Queue ==
    /\ task = "stage1" /\ pc = "queue"
    /\ queue' = [queue EXCEPT !.stage2 = @ + 1]
    /\ pc' = "return"
    /\ UNCHANGED <<doc, library, contract, rows, clauses_file, results_file, task,
                   session, aborts>>
    /\ UNCHANGED models
    /\ UNCHANGED cvars
    /\ UNCHANGED lvars
    /\ UNCHANGED avars

\* preprocess_contract lines 212-216: send_task raises; only the processing
\* message changes, the status stays "preprocessing_completed"
Stage1QueueFail ==
    /\ task = "stage1" /\ pc = "queue"
    /\ pc' = "return"
    /\ UNCHANGED <<doc, library, contract, rows, clauses_file, results_file, queue,
                   task, session, aborts>>
    /\ UNCHANGED models
    /\ UNCHANGED cvars
    /\ UNCHANGED lvars
    /\ UNCHANGED avars

\* preprocess_contract lines 218-229: the task returns a success and its
\* message is acknowledged
Stage1Return ==
    /\ task = "stage1" /\ pc = "return"
    /\ task' = "idle"
    /\ pc' = "idle"
    /\ UNCHANGED <<doc, library, contract, rows, clauses_file, results_file, queue,
                   session, aborts>>
    /\ UNCHANGED models
    /\ UNCHANGED cvars
    /\ UNCHANGED lvars
    /\ UNCHANGED avars

\* classify_contract lines 57-82 with a contract that is ready: the status
\* becomes "classifying" and is committed
Stage2Start ==
    /\ task = "idle" /\ queue.stage2 > 0
    /\ contract.status = "preprocessing_completed"
    /\ queue' = [queue EXCEPT !.stage2 = @ - 1]
    /\ contract' = [contract EXCEPT !.status = "classifying"]
    /\ task' = "stage2"
    /\ pc' = "classify"
    /\ UNCHANGED <<doc, library, rows, clauses_file, results_file, session, aborts>>
    /\ UNCHANGED models
    /\ UNCHANGED cvars
    /\ UNCHANGED lvars
    /\ UNCHANGED avars

\* classify_contract lines 64-65 and 251-278: the contract is not ready; the
\* exception handler fails it with the message and the task returns
Stage2NotReady ==
    /\ task = "idle" /\ queue.stage2 > 0
    /\ contract.status # "preprocessing_completed"
    /\ queue' = [queue EXCEPT !.stage2 = @ - 1]
    /\ contract' = [contract EXCEPT !.status = "failed",
                                    !.error_message = "not ready for classification"]
    /\ UNCHANGED <<doc, library, rows, clauses_file, results_file, task, pc, session,
                   aborts>>
    /\ UNCHANGED models
    /\ UNCHANGED cvars
    /\ UNCHANGED lvars
    /\ UNCHANGED avars

\* classify_contract lines 110-137: the classifier is built from the
\* templates of the contract's state and run over the clauses
ClassificationRun(clauses) ==
    LET contract_state == ContractState(doc.original_filename)
    IN CHOOSE classification_results \in
           {classify_clauses(classifier, clause_data, library) :
                classifier \in {[templates |-> get_template_clauses(contract_state),
                                 sbert_model |-> engines.sbert_model]},
                clause_data \in {clauses}} : TRUE

\* classify_contract lines 84-214: the clause file is read, the clauses are
\* classified, the results file is written; rows and counters wait in the
\* session
Stage2Classify ==
    /\ task = "stage2" /\ pc = "classify"
    /\ clauses_file # None
    /\ session' = <<[clauses |-> clauses_file[1],
                     classification_results |-> ClassificationRun(clauses_file[1])]>>
    /\ results_file' = <<results_data(clauses_file[1],
                                      ClassificationRun(clauses_file[1]))>>
    /\ pc' = "commit"
    /\ UNCHANGED <<doc, library, contract, rows, clauses_file, queue, task, aborts>>
    /\ models' = SpacyClassifier_init(models, engines)
    /\ UNCHANGED cvars
    /\ UNCHANGED lvars
    /\ UNCHANGED avars

\* classify_contract lines 161-183 and 216-236: one row per valid result is
\* added to the rows already stored, the counters and the status "completed"
\* are set, all committed together; the task returns
Stage2Commit ==
    /\ task = "stage2" /\ pc = "commit"
    /\ LET clauses == session[1].clauses
           results == session[1].classification_results
           valid == valid_classifications(results)
       IN /\ rows' = rows \o [i \in 1..Len(valid) |-> ContractClause(valid[i])]
          /\ contract' = [contract EXCEPT
                            !.status = "completed",
                            !.total_clauses = Len(clauses),
                            !.standard_clauses = CountLabels(valid, {"Standard"}),
                            !.non_standard_clauses =
                                CountLabels(valid, {"Non-Standard"}),
                            !.ambiguous_clauses = CountLabels(valid, {"Ambiguous"})]
    /\ session' = None
    /\ task' = "idle"
    /\ pc' = "idle"
    /\ UNCHANGED <<doc, library, clauses_file, results_file, queue, aborts>>
    /\ UNCHANGED models
    /\ UNCHANGED cvars
    /\ UNCHANGED lvars
    /\ UNCHANGED avars

\* classify_contract lines 251-278: an exception in the body; what the
\* session held is dropped, the contract is failed with the message
Stage2Fail ==
    /\ task = "stage2"
    /\ contract' = [contract EXCEPT !.status = "failed",
                                    !.error_message = "exception"]
    /\ session' = None
    /\ task' = "idle"
    /\ pc' = "idle"
    /\ UNCHANGED <<doc, library, rows, clauses_file, results_file, queue, aborts>>
    /\ UNCHANGED models
    /\ UNCHANGED cvars
    /\ UNCHANGED lvars
    /\ UNCHANGED avars

\* the worker process is lost while a task runs: nothing uncommitted is
\* kept and the unacknowledged message returns to the queue
Abort ==
    /\ task # "idle"
    /\ aborts < MaxAborts
    /\ queue' = IF task = "stage1" THEN [queue EXCEPT !.stage1 = @ + 1]
                ELSE [queue EXCEPT !.stage2 = @ + 1]
    /\ session' = None
    /\ task' = "idle"
    /\ pc' = "idle"
    /\ aborts' = aborts + 1
    /\ UNCHANGED <<doc, library, contract, rows, clauses_file, results_file>>
    /\ models' = init_worker_process(engines)
    /\ UNCHANGED cvars
    /\ UNCHANGED lvars
    /\ UNCHANGED avars

\* the steps of the worker process
WorkerStep ==
    \/ Stage1Start \/ Stage1Fail \/ Stage1Extract \/ Stage1Queue \/ Stage1QueueFail
    \/ Stage1Return
    \/ Stage2Start \/ Stage2NotReady \/ Stage2Classify \/ Stage2Commit \/ Stage2Fail

Next == WorkerStep \/ Abort

Spec == Init /\ [][Next]_vars

\* the worker process keeps taking steps while it can; losses of the process
\* are not forced
SpecFair == Init /\ [][Next]_vars /\ WF_vars(WorkerStep)

(***************************************************************************)
(* Contract runs of tasks.stage2_classification.classify_contract loading  *)
(* their template, each with its own TemplateLoader, all on one cache      *)
(* directory.                                                               *)
(***************************************************************************)

InitLoader ==
    /\ CascadeAtRest
    /\ engines = [sbert_model |-> TRUE, use_cross_encoder |-> FALSE]
    /\ PipelineAtRest
    /\ LoaderAtRest
    /\ ServicesAtRest

\* classify_contract lines 104-105 and load_template lines 54-66: a new
\* TemplateLoader holds no template, the PDF exists; the text cache is read
\* if its path exists
LoadCachedText(r) ==
    /\ loader[r].pc = "idle"
    /\ \E state \in States :
         /\ cache[state].text.exists
         /\ loader' = [loader EXCEPT ![r] =
                [NoLoad EXCEPT !.pc = "attributes", !.state = state,
                               !.cleaned_text = cache[state].text.text]]
    /\ UNCHANGED <<cache, cvars, pvars>>
    /\ UNCHANGED avars

\* load_template lines 71-87: no text cache, the PDF is extracted and cleaned
ExtractText(r) ==
    /\ loader[r].pc = "idle"
    /\ \E state \in States :
         /\ ~cache[state].text.exists
         /\ loader' = [loader EXCEPT ![r] =
                [NoLoad EXCEPT !.pc = "open_text", !.state = state,
                               !.cleaned_text = TemplateText(state)]]
    /\ UNCHANGED <<cache, cvars, pvars>>
    /\ UNCHANGED avars

\* load_template lines 77-84 and classify_contract lines 106-107: the
\* extraction fails, load_template returns None and the run raises
ExtractFail(r) ==
    /\ loader[r].pc = "idle"
    /\ \E state \in States :
         /\ ~cache[state].text.exists
         /\ loader' = [loader EXCEPT ![r] =
                [NoLoad EXCEPT !.pc = "done", !.state = state]]
    /\ UNCHANGED <<cache, cvars, pvars>>
    /\ UNCHANGED avars

\* load_template line 90: open(cache_path, 'w') creates or truncates the file
OpenTextCache(r) ==
    /\ loader[r].pc = "open_text"
    /\ cache' = [cache EXCEPT ![loader[r].state].text = OpenedFile]
    /\ loader' = [loader EXCEPT ![r].pc = "write_text"]
    /\ UNCHANGED <<cvars, pvars>>
    /\ UNCHANGED avars

\* load_template lines 91-92: the text is written and the file closed
WriteTextCache(r) ==
    /\ loader[r].pc = "write_text"
    /\ cache' = [cache EXCEPT ![loader[r].state].text =
                    [OpenedFile EXCEPT !.valid = TRUE,
                                       !.text = loader[r].cleaned_text]]
    /\ loader' = [loader EXCEPT ![r].pc = "attributes"]
    /\ UNCHANGED <<cvars, pvars>>
    /\ UNCHANGED avars

\* load_template lines 98-105: the attribute cache exists; it is loaded, or
\* json.load fails on it and the attributes are parsed from the text
LoadCachedAttributes(r) ==
    /\ loader[r].pc = "attributes"
    /\ cache[loader[r].state].attributes.exists
    /\ loader' = [loader EXCEPT
                    ![r].pc = "store",
                    ![r].attributes =
                        IF cache[loader[r].state].attributes.valid
                        THEN cache[loader[r].state].attributes.attributes
                        ELSE _parse_template_attributes(loader[r].cleaned_text,
                                                        loader[r].state)]
    /\ UNCHANGED <<cache, cvars, pvars>>
    /\ UNCHANGED avars

\* load_template lines 106-108: no attribute cache, the attributes are parsed
ParseAttributes(r) ==
    /\ loader[r].pc = "attributes"
    /\ ~cache[loader[r].state].attributes.exists
    /\ loader' = [loader EXCEPT
                    ![r].pc = "open_attributes",
                    ![r].attributes =
                        _parse_template_attributes(loader[r].cleaned_text,
                                                   loader[r].state)]
    /\ UNCHANGED <<cache, cvars, pvars>>
    /\ UNCHANGED avars

\* load_template line 113: open(attribute_cache_path, 'w')
OpenAttributeCache(r) ==
    /\ loader[r].pc = "open_attributes"
    /\ cache' = [cache EXCEPT ![loader[r].state].attributes = OpenedFile]
    /\ loader' = [loader EXCEPT ![r].pc = "write_attributes"]
    /\ UNCHANGED <<cvars, pvars>>
    /\ UNCHANGED avars

\* load_template lines 114-115: json.dump and close
WriteAttributeCache(r) ==
    /\ loader[r].pc = "write_attributes"
    /\ cache' = [cache EXCEPT ![loader[r].state].attributes =
                    [OpenedFile EXCEPT !.valid = TRUE,
                                       !.attributes = loader[r].attributes]]
    /\ loader' = [loader EXCEPT ![r].pc = "store"]
    /\ UNCHANGED <<cvars, pvars>>
    /\ UNCHANGED avars

\* load_template lines 119-128: the template data are kept and returned
StoreTemplate(r) ==
    /\ loader[r].pc = "store"
    /\ loader' = [loader EXCEPT
                    ![r].pc = "done",
                    ![r].template_data =
                        <<[state |-> loader[r].state,
                           cleaned_text |-> loader[r].cleaned_text,
                           attributes |-> loader[r].attributes]>>]
    /\ UNCHANGED <<cache, cvars, pvars>>
    /\ UNCHANGED avars

\* the run ends; the worker takes the next contract
RunEnd(r) ==
    /\ loader[r].pc = "done"
    /\ loader' = [loader EXCEPT ![r] = NoLoad]
    /\ UNCHANGED <<cache, cvars, pvars>>
    /\ UNCHANGED avars

NextLoader ==
    \E r \in Runs :
       \/ LoadCachedText(r) \/ ExtractText(r) \/ ExtractFail(r)
       \/ OpenTextCache(r) \/ WriteTextCache(r)
       \/ LoadCachedAttributes(r) \/ ParseAttributes(r)
       \/ OpenAttributeCache(r) \/ WriteAttributeCache(r)
       \/ StoreTemplate(r) \/ RunEnd(r)

SpecLoader == InitLoader /\ [][NextLoader]_vars

(***************************************************************************)
(* The threads of one process constructing ModelCache and getting models.  *)
(***************************************************************************)

InitModelCache ==
    /\ CascadeAtRest
    /\ engines = [sbert_model |-> TRUE, use_cross_encoder |-> FALSE]
    /\ PipelineAtRest
    /\ LoaderAtRest
    /\ ServicesAtRest

\* model_cache.py line 77, run once under the import lock before any thread
\* can name the module: model_cache = ModelCache()
ImportModelCache ==
    /\ ~mcache.instance
    /\ mcache' = ModelCache_init(ModelCache_new(mcache))
    /\ UNCHANGED threads
    /\ UNCHANGED <<cvars, pvars, lvars, gvars, uvars>>

\* a thread calls ModelCache(): __new__ returns the instance, __init__ runs;
\* the thread sees the models the returned object holds
ConstructModelCache(t) ==
    /\ mcache.instance
    /\ threads[t].pc = "idle"
    /\ mcache' = ModelCache_init(ModelCache_new(mcache))
    /\ threads' = [threads EXCEPT
                     ![t].seen = ModelCache_init(ModelCache_new(mcache)).model]
    /\ UNCHANGED <<cvars, pvars, lvars, gvars, uvars>>

\* get_sbert_model line 38 / get_spacy_model line 55: the first, unlocked
\* test; a model that is set is returned at once
GetModel(t, k) ==
    /\ mcache.instance
    /\ threads[t].pc = "idle"
    /\ threads' = [threads EXCEPT
                     ![t].kind = k,
                     ![t].pc = IF mcache.model[k] = None THEN "acquire" ELSE "idle",
                     ![t].got[k] = IF mcache.model[k] = None THEN @
                                   ELSE mcache.model[k]]
    /\ UNCHANGED mcache
    /\ UNCHANGED <<cvars, pvars, lvars, gvars, uvars>>

\* lines 39 / 56: with self._sbert_lock
AcquireModelLock(t) ==
    /\ threads[t].pc = "acquire"
    /\ mcache.lock[threads[t].kind].holder = 0
    /\ mcache' = [mcache EXCEPT !.lock[threads[t].kind].holder = t]
    /\ threads' = [threads EXCEPT ![t].pc = "locked"]
    /\ UNCHANGED <<cvars, pvars, lvars, gvars, uvars>>

\* lines 40-43 / 57-60: the second test under the lock; the model is
\* constructed and assigned if it is still None
LoadModel(t) ==
    /\ threads[t].pc = "locked"
    /\ mcache.model[threads[t].kind] = None
    /\ mcache' = [mcache EXCEPT
                    !.constructed[threads[t].kind] = @ + 1,
                    !.model[threads[t].kind] =
                        <<mcache.constructed[threads[t].kind] + 1>>]
    /\ threads' = [threads EXCEPT ![t].pc = "loaded"]
    /\ UNCHANGED <<cvars, pvars, lvars, gvars, uvars>>

\* lines 40 / 57: the model was set by another thread meanwhile
SkipLoadModel(t) ==
    /\ threads[t].pc = "locked"
    /\ mcache.model[threads[t].kind] # None
    /\ threads' = [threads EXCEPT ![t].pc = "loaded"]
    /\ UNCHANGED mcache
    /\ UNCHANGED <<cvars, pvars, lvars, gvars, uvars>>

\* lines 45-51 / 61-66: the warm-up call, the lock is released and
\* self._sbert_model is returned
ReturnModel(t) ==
    /\ threads[t].pc = "loaded"
    /\ mcache' = [mcache EXCEPT !.lock[threads[t].kind].holder = 0]
    /\ threads' = [threads EXCEPT
                     ![t].pc = "idle",
                     ![t].got[threads[t].kind] = mcache.model[threads[t].kind]]
    /\ UNCHANGED <<cvars, pvars, lvars, gvars, uvars>>

NextModelCache ==
    \/ ImportModelCache
    \/ \E t \in Threads :
          \/ ConstructModelCache(t)
          \/ \E k \in ModelKinds : GetModel(t, k)
          \/ AcquireModelLock(t) \/ LoadModel(t) \/ SkipLoadModel(t)
          \/ ReturnModel(t)

SpecModelCache == InitModelCache /\ [][NextModelCache]_vars

(***************************************************************************)
(* Stage-2 tasks of one contract delivered to several pool processes after *)
(* one completed stage-1 run.                                               *)
(***************************************************************************)

\* stage 1 has run once: the clause file is written, the status committed,
\* and the stage-2 message was delivered once or more than once
InitPool ==
    /\ CascadeAtRest
    /\ LoaderAtRest
    /\ ModelCacheAtRest
    /\ PoolAtRest
    /\ ApiAtRest
    /\ engines = [sbert_model |-> TRUE, use_cross_encoder |-> FALSE]
    /\ \E n \in 0..MaxClauses :
         \E kinds \in [1..n -> ParagraphKinds] :
            /\ doc = [original_filename |-> <<"t", "n", "1">>, state |-> "TN",
                      paragraphs |-> [i \in 1..n |->
                          [text |-> kinds[i].text, attrs |-> kinds[i].attrs,
                           methodology |-> kinds[i].methodology]]]
            /\ library = [i \in 1..n |->
                            [t \in 1..Len(TARGET_ATTRIBUTES) |-> kinds[i].sig]]
    /\ contract = [NewContract EXCEPT !.status = "preprocessing_completed"]
    /\ rows = << >>
    /\ clauses_file = <<extract_clauses(doc.paragraphs)>>
    /\ results_file = None
    /\ queue \in {[stage1 |-> 0, stage2 |-> m] : m \in 1..MaxWorkers}
    /\ task = "idle"
    /\ pc = "idle"
    /\ session = None
    /\ aborts = 0
    /\ models = NoModels

\* classify_contract lines 58-62: a process takes a message and reads the
\* contract row in its own session
QueryContract(w) ==
    /\ workers[w].pc = "idle" /\ queue.stage2 > 0
    /\ queue' = [queue EXCEPT !.stage2 = @ - 1]
    /\ workers' = [workers EXCEPT ![w].pc = "guard",
                                  ![w].status = contract.status]
    /\ UNCHANGED <<doc, library, contract, rows, clauses_file, results_file, task,
                   pc, session, aborts, models>>
    /\ UNCHANGED <<cvars, lvars, mvars, uvars>>

\* lines 64-82: the status that was read is 'preprocessing_completed'; the
\* status "classifying" is committed
GuardPass(w) ==
    /\ workers[w].pc = "guard"
    /\ workers[w].status = "preprocessing_completed"
    /\ contract' = [contract EXCEPT !.status = "classifying"]
    /\ workers' = [workers EXCEPT ![w].pc = "classify", ![w].passed = TRUE]
    /\ UNCHANGED <<doc, library, rows, clauses_file, results_file, queue, task, pc,
                   session, aborts, models>>
    /\ UNCHANGED <<cvars, lvars, mvars, uvars>>

\* lines 64-65 and 251-278: the status that was read is another one; the
\* handler fails the contract
GuardFail(w) ==
    /\ workers[w].pc = "guard"
    /\ workers[w].status # "preprocessing_completed"
    /\ contract' = [contract EXCEPT !.status = "failed",
                                    !.error_message = "not ready for classification"]
    /\ workers' = [workers EXCEPT ![w].pc = "idle"]
    /\ UNCHANGED <<doc, library, rows, clauses_file, results_file, queue, task, pc,
                   session, aborts, models>>
    /\ UNCHANGED <<cvars, lvars, mvars, uvars>>

\* lines 84-214: the clauses are classified and the results file written
ClassifyInPool(w) ==
    /\ workers[w].pc = "classify"
    /\ workers' = [workers EXCEPT
                     ![w].pc = "commit",
                     ![w].session =
                         <<[clauses |-> clauses_file[1],
                            classification_results |->
                                ClassificationRun(clauses_file[1])]>>]
    /\ results_file' = <<results_data(clauses_file[1],
                                      ClassificationRun(clauses_file[1]))>>
    /\ UNCHANGED <<doc, library, contract, rows, clauses_file, queue, task, pc,
                   session, aborts, models>>
    /\ UNCHANGED <<cvars, lvars, mvars, uvars>>

\* lines 161-183 and 216-236: the rows, the counters and the status
\* "completed" are committed
CommitInPool(w) ==
    /\ workers[w].pc = "commit"
    /\ LET clauses == workers[w].session[1].clauses
           valid == valid_classifications(
                        workers[w].session[1].classification_results)
       IN /\ rows' = rows \o [i \in 1..Len(valid) |-> ContractClause(valid[i])]
          /\ contract' = [contract EXCEPT
                            !.status = "completed",
                            !.total_clauses = Len(clauses),
                            !.standard_clauses = CountLabels(valid, {"Standard"}),
                            !.non_standard_clauses =
                                CountLabels(valid, {"Non-Standard"}),
                            !.ambiguous_clauses = CountLabels(valid, {"Ambiguous"})]
    /\ workers' = [workers EXCEPT ![w].pc = "idle", ![w].session = None,
                                  ![w].stored = TRUE]
    /\ UNCHANGED <<doc, library, clauses_file, results_file, queue, task, pc,
                   session, aborts, models>>
    /\ UNCHANGED <<cvars, lvars, mvars, uvars>>

\* lines 251-278: an exception in the body fails the contract
FailInPool(w) ==
    /\ workers[w].pc \in {"classify", "commit"}
    /\ contract' = [contract EXCEPT !.status = "failed",
                                    !.error_message = "exception"]
    /\ workers' = [workers EXCEPT ![w].pc = "idle", ![w].session = None]
    /\ UNCHANGED <<doc, library, rows, clauses_file, results_file, queue, task, pc,
                   session, aborts, models>>
    /\ UNCHANGED <<cvars, lvars, mvars, uvars>>

NextPool ==
    \E w \in Workers :
       \/ QueryContract(w) \/ GuardPass(w) \/ GuardFail(w)
       \/ ClassifyInPool(w) \/ CommitInPool(w) \/ FailInPool(w)

SpecPool == InitPool /\ [][NextPool]_vars

(***************************************************************************)
(* The upload and delete endpoints, served by several requests at a time,  *)
(* and the worker's tasks as far as they add files and rows of a contract. *)
(***************************************************************************)

InitApi ==
    /\ CascadeAtRest
    /\ engines = [sbert_model |-> TRUE, use_cross_encoder |-> FALSE]
    /\ PipelineAtRest
    /\ LoaderAtRest
    /\ ServicesAtRest

\* the Contract rows with a file hash
ContractsWithHash(rows_, h) == {c \in rows_ : c.file_hash = h}

\* a table that accepts every row
NoUniqueConstraint(rows_, h) == TRUE

\* contract.py line 16, unique=True on file_hash: the insert of a row is
\* accepted only while no row has its hash
unique_file_hash(rows_, h) == ContractsWithHash(rows_, h) = {}

\* contract.py lines 41-42, cascade="all, delete-orphan": deleting a Contract
\* deletes its FileRecord and ContractClause rows with it
delete_cascade(d, id) ==
    [contracts |-> {c \in d.contracts : c.id # id},
     file_records |-> {f \in d.file_records : f.contract_id # id},
     clauses |-> d.clauses \ {id}]

\* ContractService.queue_processing: it calls
\* self.celery_service.queue_processing_task, a method CeleryService does
\* not define (it defines queue_preprocessing_task); the AttributeError is
\* caught and the failure returned
queue_processing == [success |-> FALSE, error |-> "AttributeError"]

\* the slot serves a request that has not returned
InProgress(r) == requests[r].pc \notin {"idle", "done"}

\* a request is at work on the contract
BeingUploaded(id) ==
    \E r \in Requests : InProgress(r) /\ requests[r].op = "upload"
                                     /\ requests[r].id = id

Respond(r, text) == [requests[r] EXCEPT !.pc = "done", !.response = text]

\* upload_contract lines 24-38: validate_file or validate_state rejects the
\* request before the file is read
UploadInvalid(r, error) ==
    /\ requests[r].pc = "idle"
    /\ requests' = [requests EXCEPT ![r] =
           [Respond(r, error) EXCEPT !.op = "upload"]]
    /\ UNCHANGED <<db, upload_dir, next_id>>
    /\ UNCHANGED <<cvars, pvars, lvars, mvars, gvars>>

\* upload_contract lines 40-48: the file is read and hashed, and a contract
\* with the hash is looked for
UploadQuery(r, b) ==
    /\ requests[r].pc = "idle"
    /\ requests' = [requests EXCEPT ![r] =
           IF ContractsWithHash(db.contracts, b) # {}
           THEN [Respond(r, "DUPLICATE_FILE") EXCEPT !.op = "upload",
                                                     !.bytes = b]
           ELSE [IdleRequest EXCEPT !.pc = "create", !.op = "upload",
                                    !.bytes = b]]
    /\ UNCHANGED <<db, upload_dir, next_id>>
    /\ UNCHANGED <<cvars, pvars, lvars, mvars, gvars>>

\* create_contract lines 33-50: the Contract row is added and committed; the
\* commit raises when the hash is taken, the except clause rolls back and
\* upload_contract answers "Contract creation failed"
UploadAddContract(r) ==
    /\ requests[r].pc = "create"
    /\ next_id <= MaxContracts
    /\ IF unique_file_hash(db.contracts, requests[r].bytes)
       THEN /\ db' = [db EXCEPT !.contracts = @ \cup
                        {[id |-> next_id, file_hash |-> requests[r].bytes,
                          status |-> "uploaded"]}]
            /\ next_id' = next_id + 1
            /\ requests' = [requests EXCEPT ![r] =
                   [@ EXCEPT !.pc = "store", !.id = next_id,
                             !.created = TRUE]]
       ELSE /\ requests' = [requests EXCEPT ![r] =
                   Respond(r, "Contract creation failed")]
            /\ UNCHANGED <<db, next_id>>
    /\ UNCHANGED upload_dir
    /\ UNCHANGED <<cvars, pvars, lvars, mvars, gvars>>

\* create_contract lines 52-54, FileSystemService.upload_file returns True:
\* the file is written
UploadStoreFile(r) ==
    /\ requests[r].pc = "store"
    /\ upload_dir' = upload_dir \cup {<<requests[r].id, "original">>}
    /\ requests' = [requests EXCEPT ![r].pc = "record"]
    /\ UNCHANGED <<db, next_id>>
    /\ UNCHANGED <<cvars, pvars, lvars, mvars, gvars>>

\* create_contract lines 52-63, upload_file returns False: the Contract row
\* is deleted again
UploadStoreFails(r) ==
    /\ requests[r].pc = "store"
    /\ db' = delete_cascade(db, requests[r].id)
    /\ requests' = [requests EXCEPT ![r] =
           Respond(r, "Contract creation failed")]
    /\ UNCHANGED <<upload_dir, next_id>>
    /\ UNCHANGED <<cvars, pvars, lvars, mvars, gvars>>

\* create_contract lines 67-84: the FileRecord of the original is committed;
\* upload_contract lines 65-75: queue_processing and the response
UploadRecordAndQueue(r) ==
    /\ requests[r].pc = "record"
    /\ db' = [db EXCEPT !.file_records = @ \cup
                 {[contract_id |-> requests[r].id, file_type |-> "original"]}]
    /\ requests' = [requests EXCEPT ![r] =
           IF queue_processing.success
           THEN Respond(r, "success")
           ELSE Respond(r, "Failed to queue processing")]
    /\ UNCHANGED <<upload_dir, next_id>>
    /\ UNCHANGED <<cvars, pvars, lvars, mvars, gvars>>

\* preprocess_contract lines 159-179 and classify_contract lines 139-214, on
\* a message for the contract: the clause-data file and the results file are
\* written, their FileRecords and the ContractClause rows added
PipelineWrites(id) ==
    /\ ~BeingUploaded(id)
    /\ \E c \in db.contracts : c.id = id /\ c.status = "uploaded"
    /\ upload_dir' = upload_dir \cup {<<id, "clause_data">>,
                                      <<id, "classification_results">>}
    /\ db' = [db EXCEPT
          !.contracts = {IF c.id = id
                         THEN [c EXCEPT !.status = "completed"]
                         ELSE c : c \in @},
          !.file_records = @ \cup
              {[contract_id |-> id, file_type |-> "clause_data"],
               [contract_id |-> id, file_type |-> "classification_results"]},
          !.clauses = @ \cup {id}]
    /\ UNCHANGED <<requests, next_id>>
    /\ UNCHANGED <<cvars, pvars, lvars, mvars, gvars>>

\* delete_contract lines 117-122: no contract has the id; the client names
\* an id that was issued before
DeleteNotFound(r, id) ==
    /\ requests[r].pc = "idle"
    /\ id < next_id
    /\ ~\E c \in db.contracts : c.id = id
    /\ requests' = [requests EXCEPT ![r] =
           [Respond(r, "Contract not found") EXCEPT !.op = "delete"]]
    /\ UNCHANGED <<db, upload_dir, next_id>>
    /\ UNCHANGED <<cvars, pvars, lvars, mvars, gvars>>

\* delete_contract lines 117-135: the contract is found; the file named by
\* storage_object_key and <id>_extracted.txt are deleted; db.delete(contract),
\* commit, success
DeleteFound(r, id) ==
    /\ requests[r].pc = "idle"
    /\ ~BeingUploaded(id)
    /\ \E c \in db.contracts : c.id = id
    /\ upload_dir' = upload_dir \ {<<id, "original">>, <<id, "extracted_text">>}
    /\ db' = delete_cascade(db, id)
    /\ requests' = [requests EXCEPT ![r] =
           [Respond(r, "success") EXCEPT !.op = "delete", !.id = id]]
    /\ UNCHANGED next_id
    /\ UNCHANGED <<cvars, pvars, lvars, mvars, gvars>>

\* the response is sent; the slot serves the next request
CloseRequest(r) ==
    /\ requests[r].pc = "done"
    /\ requests' = [requests EXCEPT ![r] = IdleRequest]
    /\ UNCHANGED <<db, upload_dir, next_id>>
    /\ UNCHANGED <<cvars, pvars, lvars, mvars, gvars>>

NextApi ==
    \/ \E r \in Requests :
          \E error \in {"FILE_VALIDATION_ERROR", "STATE_VALIDATION_ERROR"} :
             UploadInvalid(r, error)
    \/ \E r \in Requests, b \in FileBytes : UploadQuery(r, b)
    \/ \E r \in Requests :
          \/ UploadAddContract(r)
          \/ UploadStoreFile(r)
          \/ UploadStoreFails(r)
          \/ UploadRecordAndQueue(r)
          \/ CloseRequest(r)
    \/ \E r \in Requests, id \in ContractIds :
          \/ DeleteNotFound(r, id)
          \/ DeleteFound(r, id)
    \/ \E id \in ContractIds : PipelineWrites(id)

SpecApi == InitApi /\ [][NextApi]_vars

(***************************************************************************)
(* Properties of the classifier runs.                                      *)
(***************************************************************************)

\* the text holds an exception token, in any case
HoldsExceptionToken(text) == \E i \in 1..Len(text) : text[i] \in {"x", "X"}

\* candidate x comes before candidate y in the order label priority
\* Standard > Ambiguous > Non-Standard, then score
Outranks(x, y) ==
    LET rank(l) == IF l = "Standard" THEN 3 ELSE IF l = "Ambiguous" THEN 2
                   ELSE IF l = "Non-Standard" THEN 1 ELSE 0
    IN \/ rank(x.label) > rank(y.label)
       \/ rank(x.label) = rank(y.label) /\ x.score > y.score

\* the attribute name of a decision, whatever the variant's tagging
AttributeOf(d) == IF variant = "worker" THEN d.attribute ELSE d.attribute[1]

\* the decision carries no attribute ("" in the worker, None in the notebooks)
NoAttribute(d) == IF variant = "worker" THEN d.attribute = "" ELSE d.attribute = None

DecisionSet == {decisions[i] : i \in 1..Len(decisions)}

\* C4: the decision returned for a clause and an attribute is a candidate
\* that no other candidate for that attribute outranks under (label priority
\* Standard > Ambiguous > Non-Standard, then score).
C4_SelectionRespectsPriority ==
    done => \A d \in DecisionSet :
               ~NoAttribute(d) =>
                  \A r \in ranked :
                     r.attribute = AttributeOf(d) => ~Outranks(r.result, d)

\* C5: when the clause text holds an exception token and the template's
\* has_exception_tokens flag is false, the cascade returns Non-Standard with
\* rule new_condition, whatever the similarity signals are.
C5_OverrideDominance ==
    done => \A r \in ranked :
               (HoldsExceptionToken(clause.text) /\ ~r.template.has_exception_tokens)
               => (r.result.label = "Non-Standard" /\ r.result.rule = "new_condition")

\* C5 witness: a clause with a capitalised exception token was classified
\* against a template without exception tokens by each of the rules' owners.
C5_Witness ==
    /\ done
    /\ \E i \in 1..Len(clause.text) : clause.text[i] = "X"
    /\ \E r \in ranked : /\ ~r.template.has_exception_tokens
                         /\ r.result.rule = "new_condition"
                         /\ r.result.label = "Non-Standard"

\* C6: a clause whose raw text is the raw text of a template is Standard
\* against that template, with rule exact_norm and score at least 0.95.
C6_ExactMatchStandard ==
    done => \A r \in ranked :
               clause.text = r.template.raw_text
               => /\ r.result.label = "Standard"
                  /\ r.result.rule = "exact_norm"
                  /\ r.result.score >= 95

\* the ambiguous band of the variant under test
AmbigLow == CASE variant = "worker" -> sbert_ambig_low
              [] variant = "notebook" -> SBERT_AMBIG_LOW
              [] OTHER -> DEBERTA_SBERT_AMBIG_LOW

SemanticThreshold == CASE variant = "worker" -> sbert_threshold
                       [] variant = "notebook" -> SBERT_THRESHOLD
                       [] OTHER -> DEBERTA_SBERT_THRESHOLD

\* C7: every Ambiguous result has a score s with
\* SBERT_AMBIG_LOW <= s < SBERT_THRESHOLD of its variant.
C7_AmbiguousBand ==
    done => \A r \in ranked :
               r.result.label = "Ambiguous"
               => (AmbigLow <= r.result.score /\ r.result.score < SemanticThreshold)

\* C9: a decision is labelled Skip if and only if it carries no attribute.
C9_SkipIffNoAttribute ==
    done => \A d \in DecisionSet : (d.label = "Skip") <=> NoAttribute(d)

\* C10: every decision that is not Skip has a non-empty step trace whose
\* last step is satisfied and none of whose earlier steps is.
C10_TerminalStep ==
    done => \A d \in DecisionSet :
               d.label # "Skip"
               => /\ d.steps # << >>
                  /\ d.steps[Len(d.steps)].passed
                  /\ \A i \in 1..(Len(d.steps) - 1) : ~d.steps[i].passed

(***************************************************************************)
(* Properties of the pipeline.                                             *)
(***************************************************************************)

\* C1: the rows stored for a completed contract hold at most one row per
\* (clause_number, attribute_name): a later run replaces the rows of an
\* earlier one and never adds to them.
C1_OneRowPerClauseAttribute ==
    contract.status = "completed" =>
        \A i, j \in 1..Len(rows) :
            (rows[i].clause_number = rows[j].clause_number
             /\ rows[i].attribute_name = rows[j].attribute_name) => i = j

\* the (clause number, attribute) pairs detected in the contract
DetectedPairs ==
    UNION {{<<i, doc.paragraphs[i].attrs[k]>> :
               k \in 1..Len(doc.paragraphs[i].attrs)} :
           i \in 1..Len(doc.paragraphs)}

\* the rows stored for one (clause number, attribute) pair
RowsOfPair(p) ==
    {i \in 1..Len(rows) :
        rows[i].clause_number = p[1] /\ rows[i].attribute_name = p[2]}

\* C2: whenever the contract is seen completed its rows are the decisions of
\* one run over all of its clauses, one row per detected (clause, attribute)
\* pair and no other row; under any other status get_contract_results
\* returns no clause and zero counts.
C2_CompletedIsOneFullRun ==
    LET seen == get_contract_results(contract, rows) IN
    /\ contract.status = "completed" =>
          /\ \A p \in DetectedPairs : Cardinality(RowsOfPair(p)) = 1
          /\ \A i \in 1..Len(seen.clauses) :
                <<seen.clauses[i].clause_number, seen.clauses[i].attribute_name>>
                    \in DetectedPairs
    /\ contract.status # "completed" =>
          /\ seen.clauses = << >>
          /\ seen.summary.total_clauses = 0
          /\ seen.summary.standard_clauses = 0
          /\ seen.summary.non_standard_clauses = 0

ProcessingStarted == contract.status \in {"preprocessing", "classifying"}

TerminalOutcome ==
    \/ contract.status = "completed"
    \/ contract.status = "failed" /\ contract.error_message # ""

\* C3: under fair scheduling of the worker, a contract whose processing has
\* started eventually is completed, or failed with an error message.
C3_ReachesTerminalOutcome == ProcessingStarted ~> TerminalOutcome

\* N, the number of clauses of the contract, and K, the number of them that
\* match no target attribute
N == Len(doc.paragraphs)

K == Cardinality({i \in 1..Len(doc.paragraphs) : doc.paragraphs[i].attrs = << >>})

RecordedSum ==
    contract.standard_clauses + contract.non_standard_clauses
    + contract.ambiguous_clauses

\* C8 as stated: a completed run records K Skip decisions and the Standard,
\* Non-Standard and Ambiguous counters sum to N - K.
C8_SumIsNMinusK ==
    contract.status = "completed" =>
        /\ CountLabels(results_file[1].results, {"Skip"}) = K
        /\ RecordedSum = N - K

\* C8, amended: a completed run records exactly K Skip decisions, each with
\* rule no_target_attribute, in its results file; the total is N; the
\* Standard, Non-Standard and Ambiguous counters sum to the number of
\* detected (clause, attribute) pairs, which is N - K when no clause matches
\* more than one attribute and more otherwise.
C8_SkipAccounting ==
    contract.status = "completed" =>
        LET out == results_file[1] IN
        /\ CountLabels(out.results, {"Skip"}) = K
        /\ \A i \in 1..Len(out.results) :
              out.results[i].label = "Skip"
              => out.results[i].rule = "no_target_attribute"
        /\ out.total_clauses = N
        /\ contract.total_clauses = N
        /\ RecordedSum = Cardinality(DetectedPairs)
        /\ RecordedSum >= N - K
        /\ (\A i \in 1..N : Len(doc.paragraphs[i].attrs) <= 1) => RecordedSum = N - K

\* C8 witness: a completed contract with a clause that matches no attribute
\* and a clause that matches two.
C8_Witness ==
    /\ contract.status = "completed"
    /\ K >= 1
    /\ \E i \in 1..N : Len(doc.paragraphs[i].attrs) = 2
    /\ RecordedSum = N - K + 1

(***************************************************************************)
(* Further properties of the classifier runs.                              *)
(***************************************************************************)

\* the classifier under test holds a template of the attribute
HasTemplateFor(attribute) ==
    \E i \in 1..Len(templates) : templates[i].attribute = attribute

\* C11: no decision of any label is emitted for a detected attribute that
\* has no template in the store of the classifier; the operation fails
\* instead.
C11_MissingTemplateIsFatal ==
    (done /\ variant # "deberta") =>
        \A d \in DecisionSet : ~NoAttribute(d) => HasTemplateFor(AttributeOf(d))

\* the steps that report the embedding signal
SemanticStepNames == {"semantic_sbert", "semantic_ambiguous"}

\* the rules that are reached only after the embedding step
RulesAfterSemantic == {"different_methodology", "low_similarity"}

\* C12: when the embedding model is not loaded, semantic_high and
\* semantic_ambiguous do not fire, the cascade goes on with the remaining
\* rules, and a trace that passes the embedding step holds a step for it
\* with no score.
C12_DegradedSignal ==
    (done /\ variant = "worker" /\ ~engines.sbert_model) =>
        \A r \in ranked :
            /\ r.result.rule \notin {"semantic_high", "semantic_ambiguous"}
            /\ r.result.rule \in RulesAfterSemantic =>
                  \E k \in 1..Len(r.result.steps) :
                      /\ r.result.steps[k].step_name \in SemanticStepNames
                      /\ r.result.steps[k].score = None

\* the normalised text of the clause under test, as its variant names it
ClauseNorm == IF variant = "worker" THEN clause.norm_text ELSE clause.norm

AmbigHigh == CASE variant = "worker" -> sbert_ambig_high
               [] variant = "notebook" -> SBERT_AMBIG_HIGH
               [] OTHER -> DEBERTA_SBERT_AMBIG_HIGH

LexicalThreshold == CASE variant = "worker" -> fuzzy_threshold
                      [] variant = "notebook" -> FUZZY_THRESHOLD
                      [] OTHER -> DEBERTA_FUZZY_THRESHOLD

EntailmentGate == IF variant = "notebook" THEN CE_GATE ELSE DEBERTA_THRESHOLD

\* the signals of one ranked entry, as the variant under test computes them
PlaceholderSignal(r) ==
    CASE variant = "worker" ->
            _check_placeholder_substitution(clause.text, r.template.raw_text, r.lib)
      [] variant = "notebook" ->
            check_placeholder_substitution(clause.text, r.template.raw_text, r.lib)
      [] OTHER -> FALSE

LexicalSignal(r) == fuzz_ratio(ClauseNorm, r.template.norm_text, r.lib)

EmbeddingSignal(r) == sbert_score(clause.text, r.template.raw_text, r.lib)

\* the reference cascade: the first rule, in the stated order, whose
\* condition holds
ReferenceRule(r) ==
    IF HoldsExceptionToken(clause.text) /\ ~r.template.has_exception_tokens
    THEN "new_condition"
    ELSE IF ClauseNorm = r.template.norm_text THEN "exact_norm"
    ELSE IF PlaceholderSignal(r) THEN "placeholder_subst"
    ELSE IF LexicalSignal(r) >= LexicalThreshold THEN "lexical_high"
    ELSE IF engines.sbert_model /\ EmbeddingSignal(r) >= SemanticThreshold
         THEN "semantic_high"
    ELSE IF engines.sbert_model /\ AmbigLow <= EmbeddingSignal(r)
                                /\ EmbeddingSignal(r) < AmbigHigh
         THEN "semantic_ambiguous"
    ELSE IF clause.methodology THEN "different_methodology"
    ELSE IF engines.use_cross_encoder /\ r.lib.ce >= EntailmentGate
         THEN "entailment_high"
    ELSE "low_similarity"

\* the reference name of a rule of the variants
ReferenceName(rule) ==
    IF rule \in {"deberta_ce_high", "deberta_high", "deberta_medium"}
    THEN "entailment_high" ELSE rule

\* the rules of the reference cascade, in order, and the step that records
\* the signal of each
ReferenceOrder ==
    <<"new_condition", "exact_norm", "placeholder_subst", "lexical_high",
      "semantic_high", "semantic_ambiguous", "different_methodology",
      "entailment_high", "low_similarity">>

StepOfRule(rule) ==
    CASE rule = "new_condition" -> {"exception_check"}
      [] rule = "exact_norm" -> {"exact_normalized_match"}
      [] rule = "placeholder_subst" -> {"placeholder_substitution"}
      [] rule = "lexical_high" -> {"fuzzy_lexical"}
      [] rule \in {"semantic_high", "semantic_ambiguous"} -> {"semantic_sbert"}
      [] rule = "different_methodology" -> {"different_methodology"}
      [] rule = "entailment_high" -> {"deberta_cross_encoder"}
      [] OTHER -> {"default_nonstandard"}

\* the rule is evaluated by the configuration under test
RuleEnabled(rule) ==
    /\ rule \in {"semantic_high", "semantic_ambiguous"} => engines.sbert_model
    /\ rule = "entailment_high" => engines.use_cross_encoder

PositionOf(rule) == CHOOSE k \in 1..Len(ReferenceOrder) : ReferenceOrder[k] = rule

StepNames(steps) == {steps[k].step_name : k \in 1..Len(steps)}

\* C13: the returned rule is the first rule of the reference order whose
\* condition holds, and the trace holds a step for every enabled rule up to
\* and including it.
C13_AgreesWithReference ==
    done => \A r \in ranked :
        /\ ReferenceName(r.result.rule) = ReferenceRule(r)
        /\ \A k \in 1..Len(ReferenceOrder) :
              LET rule == ReferenceOrder[k] IN
              (RuleEnabled(rule) /\ k <= PositionOf(ReferenceRule(r)))
                 => StepOfRule(rule) \cap StepNames(r.result.steps) # {}

\* the same agreement for the worker and the first notebook only
AgreesWithReferenceOutsideDeberta ==
    (done /\ variant # "deberta") => \A r \in ranked :
        /\ ReferenceName(r.result.rule) = ReferenceRule(r)
        /\ \A k \in 1..Len(ReferenceOrder) :
              LET rule == ReferenceOrder[k] IN
              (RuleEnabled(rule) /\ k <= PositionOf(ReferenceRule(r)))
                 => StepOfRule(rule) \cap StepNames(r.result.steps) # {}


\* the decisions of clause c in a result list, in order
DecisionsOfClause(results, c) ==
    SelectSeq(results, LAMBDA d : d.clause_id = c)

\* two decisions that differ at most in the clause they belong to
SameDecision(d, e) ==
    [d EXCEPT !.clause_id = 0] = [e EXCEPT !.clause_id = 0]

\* two paragraphs that are the same input: same text, same detection, and
\* the same library answers against every template
SameInput(i, j) ==
    doc.paragraphs[i] = doc.paragraphs[j] /\ library[i] = library[j]

C15_ModelsInitialisedOnce ==
    models.spacy_loads <= 1 /\ models.sbert_loads <= 1


\* the rules of a decision that was computed against no template
NoTemplateRules ==
    {"no_target_attribute", "no_template_found", "classification_failed",
     "no_template"}

\* C16: every decision of a contract run is computed against a template of
\* the contract's own jurisdiction, the state recorded at upload.
C16_OwnJurisdiction ==
    results_file # None =>
       \A k \in 1..Len(results_file[1].results) :
          LET d == results_file[1].results[k]
          IN d.rule \notin NoTemplateRules => d.template_used[1] = doc.state


\* C17: no contract run mutates the shared template data: every run that
\* has loaded its template holds the same, complete template data, the
\* attributes of the whole template text of its state.
C17_RunsReadCompleteTemplates ==
    \A r \in Runs :
       loader[r].template_data # None =>
          /\ loader[r].template_data[1].cleaned_text = TemplateText(loader[r].state)
          /\ loader[r].template_data[1].attributes =
                _parse_template_attributes(TemplateText(loader[r].state),
                                           loader[r].state)


\* C18: a result returned by the rule semantic_high has the label Standard
\* and, as its score, the embedding similarity its semantic step measured
\* and found at or above the threshold.
C18_SemanticHighScore ==
    \A e \in ranked :
       e.result.rule = "semantic_high" =>
          /\ e.result.label = "Standard"
          /\ \E k \in 1..Len(e.result.steps) :
                /\ e.result.steps[k].step_name = "semantic_sbert"
                /\ e.result.steps[k].passed
                /\ e.result.steps[k].score = <<e.result.score>>

\* the part of C18 the code keeps: semantic_high is always Standard and is
\* returned only after a semantic step that passed
SemanticHighIsStandard ==
    \A e \in ranked :
       e.result.rule = "semantic_high" =>
          /\ e.result.label = "Standard"
          /\ \E k \in 1..Len(e.result.steps) :
                /\ e.result.steps[k].step_name = "semantic_sbert"
                /\ e.result.steps[k].passed


Labels == {"Standard", "Non-Standard", "Ambiguous", "Skip"}

\* C19: every decision, whatever path produced it, has one of the four
\* labels and a score within [0, 1] (0 to 100 hundredths), for every value
\* the engines can return.
C19_LabelAndScoreRange ==
    \A d \in DecisionSet :
       /\ d.label \in Labels
       /\ 0 <= d.score /\ d.score <= 100

\* the part of C19 that holds: the labels of all classifiers, and the score
\* range of the worker's classifier
LabelsAndWorkerScoreRange ==
    \A d \in DecisionSet :
       /\ d.label \in Labels
       /\ (variant = "worker") => (0 <= d.score /\ d.score <= 100)


\* C20: a clause that matches m >= 1 attributes gets exactly m decisions,
\* one per matched attribute in order, each the result of a cascade run of
\* the clause against a template of that attribute.
C20_OneDecisionPerMatchedAttribute ==
    (done /\ Len(clause.attrs) >= 1) =>
       /\ Len(decisions) = Len(clause.attrs)
       /\ \A k \in 1..Len(decisions) :
             /\ ~NoAttribute(decisions[k])
             /\ AttributeOf(decisions[k]) = clause.attrs[k]
             /\ (decisions[k].rule \notin NoTemplateRules) =>
                   \E e \in ranked :
                      /\ e.attribute = clause.attrs[k]
                      /\ e.result.label = decisions[k].label
                      /\ e.result.score = decisions[k].score
                      /\ e.result.rule = decisions[k].rule
                      /\ e.result.steps = decisions[k].steps

\* the part of C20 the worker's classifier keeps
WorkerOneDecisionPerMatchedAttribute ==
    (variant = "worker") => C20_OneDecisionPerMatchedAttribute


(***************************************************************************)
(* Properties of the stored results and of the task pipeline.              *)
(***************************************************************************)

\* the number of stored rows with the given classification
RowsLabelled(label) ==
    Cardinality({i \in 1..Len(rows) : rows[i].classification = label})

\* the stored label counts are those of the stored rows
LabelCountsMatchRows ==
    contract.status = "completed" =>
       /\ contract.standard_clauses = RowsLabelled("Standard")
       /\ contract.non_standard_clauses = RowsLabelled("Non-Standard")
       /\ contract.ambiguous_clauses = RowsLabelled("Ambiguous")

\* C21: whenever a contract is completed, its stored summary counts (total,
\* Standard, Non-Standard, Ambiguous) equal the counts recomputed from the
\* decision rows stored for it.
C21_SummaryIsDerived ==
    contract.status = "completed" =>
       /\ contract.total_clauses = Len(rows)
       /\ LabelCountsMatchRows


\* the rules _classify_against_template can return
TerminalRules ==
    {"new_condition", "exact_norm", "placeholder_subst", "lexical_high",
     "semantic_high", "semantic_ambiguous", "different_methodology",
     "low_similarity"}

\* C22: the worker's cascade is total. Every run of a clause against a
\* template returns a result whose rule is a terminal rule, the default
\* low_similarity exactly when its last step is the default step, and the
\* selector never answers classification_failed: a decision for an
\* attribute that has a template carries the terminal rule of a cascade run.
C22_CascadeIsTotal ==
    (variant = "worker") =>
       /\ \A e \in ranked :
             /\ e.result.rule \in TerminalRules
             /\ e.result.steps # << >>
             /\ (e.result.rule = "low_similarity") <=>
                   (e.result.steps[Len(e.result.steps)].step_name
                       = "default_nonstandard")
       /\ \A d \in DecisionSet :
             /\ d.rule # "classification_failed"
             /\ (~NoAttribute(d) /\ HasTemplateFor(d.attribute)) =>
                   d.rule \in TerminalRules

\* the worker has answered by the default rule with the score 0, the lowest
\* score a cascade run can have, for an attribute that has a template
C22_Witness ==
    /\ variant = "worker" /\ done
    /\ \E d \in DecisionSet :
          /\ ~NoAttribute(d) /\ HasTemplateFor(d.attribute)
          /\ d.rule = "low_similarity" /\ d.score = 0


\* C23: ModelCache is a thread-safe singleton cache. Under every
\* interleaving of ModelCache() constructions and get calls of the threads
\* of one process, each model's constructor has run at most once, every
\* call that returned holds the one loaded instance, and no construction
\* has reset a cached model or replaced a lock.
C23_ThreadSafeSingleton ==
    \A k \in ModelKinds :
       /\ mcache.constructed[k] <= 1
       /\ (mcache.constructed[k] = 1) => (mcache.model[k] = <<1>>)
       /\ mcache.instance => mcache.lock[k].object = 1
       /\ \A t \in Threads :
             /\ threads[t].got[k] # None => threads[t].got[k] = mcache.model[k]
             /\ threads[t].seen[k] # None => threads[t].seen[k] = mcache.model[k]

\* a model was loaded, a thread has constructed ModelCache() after that,
\* and every thread has got the model
C23_Witness ==
    \E k \in ModelKinds :
       /\ mcache.constructed[k] = 1
       /\ \E t \in Threads : threads[t].seen[k] = <<1>>
       /\ \A t \in Threads : threads[t].got[k] = <<1>>


\* C24: completed is a final status. Once the contract is completed, no
\* step of a stage-1 or stage-2 task changes its status, its counts or its
\* stored rows.
C24_CompletedIsFinal ==
    [][(contract.status = "completed") => (contract' = contract /\ rows' = rows)]_vars


\* C25: the stage-2 status guard is exclusive. After one completed stage-1
\* run, at most one stage-2 execution passes the status check, and no two
\* executions both store decisions.
C25_GuardIsExclusive ==
    \A v, w \in Workers :
       (workers[v].passed /\ workers[w].passed) => v = w


\* a stage-2 message exists or a stage-2 task runs only with the clause file
\* of the stage-1 run written, and a stage-2 task past its guard works on a
\* contract in status "classifying"
StageTwoHasItsInput ==
    /\ (queue.stage2 > 0 \/ task = "stage2") =>
          clauses_file = <<extract_clauses(doc.paragraphs)>>
    /\ (task = "stage2") => contract.status = "classifying"

NothingRemains(id) ==
    /\ ~\E c \in db.contracts : c.id = id
    /\ ~\E f \in db.file_records : f.contract_id = id
    /\ id \notin db.clauses
    /\ ~\E t \in FileTypes : <<id, t>> \in upload_dir

\* C27: upload_contract is all-or-nothing. Whenever it returns an error
\* response, no Contract row, FileRecord row or stored file of that upload
\* persists, so a later upload of the same bytes is not a DUPLICATE_FILE
\* because of the failed attempt.
C27_UploadAllOrNothing ==
    \A r \in Requests :
        (/\ requests[r].pc = "done"
         /\ requests[r].op = "upload"
         /\ requests[r].response # "success"
         /\ requests[r].created) => NothingRemains(requests[r].id)

\* the upload requests with the bytes that returned success
Succeeded(h) ==
    {r \in Requests : /\ requests[r].pc = "done"
                      /\ requests[r].op = "upload"
                      /\ requests[r].bytes = h
                      /\ requests[r].response = "success"}

\* C28: file-hash uniqueness. Under every interleaving of upload requests
\* with identical bytes at most one Contract row exists per file_hash and
\* at most one of the requests returns success.
C28_FileHashUnique ==
    \A h \in FileBytes :
        /\ Cardinality(ContractsWithHash(db.contracts, h)) <= 1
        /\ Cardinality(Succeeded(h)) <= 1

\* two requests with the same bytes both passed the query for an existing
\* contract; one inserted the row, the commit of the other was refused
C28_Witness ==
    \E r1, r2 \in Requests :
        /\ r1 # r2
        /\ requests[r1].op = "upload" /\ requests[r2].op = "upload"
        /\ requests[r1].bytes = requests[r2].bytes
        /\ requests[r1].created
        /\ \E c \in db.contracts : c.id = requests[r1].id
        /\ requests[r2].pc = "done"
        /\ requests[r2].response = "Contract creation failed"
        /\ ~requests[r2].created

\* C29: delete_contract removes everything the contract owns. After it
\* returns success no row of the contract and no file derived from it
\* remains, and a later upload of the same bytes is accepted.
C29_DeleteRemovesEverything ==
    \A r \in Requests :
        (/\ requests[r].pc = "done"
         /\ requests[r].op = "delete"
         /\ requests[r].response = "success") => NothingRemains(requests[r].id)

(***************************************************************************)
(* The template a decision names.                                          *)
(***************************************************************************)

\* the decision carries the cascade result of the template it names
NamesItsTemplate(d) ==
    \E e \in ranked :
        /\ e.template.name = d.template_used
        /\ e.result.label = d.label
        /\ e.result.score = d.score
        /\ e.result.rule = d.rule
        /\ e.result.steps = d.steps

\* C30: the template_used field of every decision that was classified
\* against a template names the template whose cascade result (label, score,
\* rule, steps) was selected, also when several templates exist for the
\* attribute.
C30_TemplateUsedIsSelected ==
    done => \A k \in 1..Len(decisions) :
               (~NoAttribute(decisions[k])
                  /\ decisions[k].rule \notin NoTemplateRules) =>
                     NamesItsTemplate(decisions[k])

\* the part of C30 the notebooks keep
NotebooksNameTheSelectedTemplate ==
    (variant # "worker") => C30_TemplateUsedIsSelected

====
